---- MODULE Spec2Model ----
(***************************************************************************)
(* Verification model of the claude-code-hooks repository.                 *)
(*                                                                         *)
(* Every hook is a single-shot process whose only durable state is the     *)
(* process environment and the filesystem.  The model keeps that state in  *)
(* variables and has one action per function or hook entry point.          *)
(*                                                                         *)
(*   SpecThreshold  the two large-file threshold resolvers                 *)
(*   SpecGuard      the large-file-guard PreToolUse hook                   *)
(*   SpecSession    the serena_awareness session marker tracker            *)
(*   SpecSweep      the tracker with the cleanup sweep also called alone   *)
(*   SpecPrompt     the prompt-flag-appender UserPromptSubmit hook         *)
(*   SpecHooks      the entry point of every hook                          *)
(*   SpecDocCheck   doc-update-check with a failing git or classifier      *)
(*   SpecRelease    the release-check PreToolUse hook                      *)
(***************************************************************************)
EXTENDS Integers, Sequences, FiniteSets, TLC

VARIABLES
    envThreshold,    \* os.environ["LARGE_FILE_THRESHOLD"]: [set, text]
    home,            \* os.environ.get("HOME") is a non-empty string
    guardConfig,     \* ~/.claude/hook-large-file-guard-config: [kind, text]
    settingsJson,    \* ~/.claude/settings.json: [kind, doc]
    thr,             \* the last resolver call: [fn, out]
    allowLargeRead,  \* os.environ.get("ALLOW_LARGE_READ") == "1"
    file,            \* the file at tool_input.file_path
    request,         \* the Read event on stdin: [ext, offset, limit]
    guard,           \* the last large-file-guard run
    markers,         \* marker directory: session id -> mtime, or NoMarker
    now,             \* time.time(), in seconds
    sess,            \* the last session tracker call, made at time sess.at
    called,          \* session id -> time of its last
                     \* is_first_prompt_in_session call, or Never
    projectDir,      \* os.environ.get("CLAUDE_PROJECT_DIR") is non-empty
    disabledHooks,   \* $CLAUDE_PROJECT_DIR/.claude/disabled-hooks
    systemToml,      \* prompt-flag-appender.toml next to the script
    projectToml,     \* $CLAUDE_PROJECT_DIR/.claude/prompt-flag-appender.toml
    flagFiles,       \* .claude/hook-*-mode-on file names, in glob order
    stdin,           \* the payload the host writes to the hook's stdin
    changelog,       \* CHANGELOG.md in the working directory
    skipEnv,         \* the hook's SKIP_* environment variable equals "1"
    git,             \* how the external programs behave when a hook runs them
    run,             \* the last hook process: exit status and output
    projectFiles,    \* the paths the project scanner is given, with the files
    procs            \* concurrent hook processes: position and locals of each

envVars   == <<envThreshold, home, guardConfig, settingsJson>>
guardVars == <<allowLargeRead, file, request, guard>>
sessVars  == <<markers, now, sess, called>>
hookVars  == <<projectDir, disabledHooks, systemToml, projectToml, flagFiles,
               stdin, changelog, skipEnv, git, run>>
restVars  == <<projectFiles, procs>>
vars      == <<envThreshold, home, guardConfig, settingsJson, thr,
               allowLargeRead, file, request, guard, markers, now, sess,
               called, projectDir, disabledHooks, systemToml, projectToml,
               flagFiles, stdin, changelog, skipEnv, git, run, projectFiles,
               procs>>

(***************************************************************************)
(* Bounds of the model.                                                    *)
(***************************************************************************)
\* longest LARGE_FILE_THRESHOLD / config text that is enumerated
MaxTextLen == 2
\* days the clock runs for
MaxDays == 8

(***************************************************************************)
(* Python values.                                                          *)
(***************************************************************************)
\* the outcome of a call: a returned int, or an exception that propagates
Return(n) == [kind |-> "return", val |-> n, exc |-> "none"]
Raise(e)  == [kind |-> "raise", val |-> 0, exc |-> e]
\* the outcome of a guarded block that fell through to the next statement
Pass      == [kind |-> "pass", val |-> 0, exc |-> "none"]

Digits     == <<"0", "1", "2", "3", "4", "5", "6", "7", "8", "9">>
DigitSet   == {Digits[i] : i \in 1..Len(Digits)}
DigitVal(c) == (CHOOSE i \in 1..Len(Digits) : Digits[i] = c) - 1
Whitespace == {" ", "\n", "\t"}

RECURSIVE LStrip(_)
LStrip(s) == IF s # <<>> /\ Head(s) \in Whitespace THEN LStrip(Tail(s)) ELSE s

RECURSIVE RStrip(_)
RStrip(s) ==
    IF s # <<>> /\ s[Len(s)] \in Whitespace
    THEN RStrip(SubSeq(s, 1, Len(s) - 1))
    ELSE s

\* str.strip()
Strip(s) == RStrip(LStrip(s))

\* the digit part of an int literal: digits, single underscores between them
ValidDigits(d) ==
    /\ d # <<>>
    /\ \A i \in 1..Len(d) : d[i] \in DigitSet \cup {"_"}
    /\ d[1] \in DigitSet
    /\ d[Len(d)] \in DigitSet
    /\ \A i \in 1..(Len(d) - 1) : ~(d[i] = "_" /\ d[i + 1] = "_")

RECURSIVE DigitsValue(_, _)
DigitsValue(d, acc) ==
    IF d = <<>> THEN acc
    ELSE IF Head(d) = "_" THEN DigitsValue(Tail(d), acc)
    ELSE DigitsValue(Tail(d), 10 * acc + DigitVal(Head(d)))

\* int(s) for a str s: surrounding whitespace, an optional sign, digits
PyIntStr(s) ==
    LET t    == Strip(s)
        sign == t # <<>> /\ Head(t) \in {"+", "-"}
        body == IF sign THEN Tail(t) ELSE t
    IN  IF ValidDigits(body)
        THEN Return((IF sign /\ Head(t) = "-" THEN -1 ELSE 1) * DigitsValue(body, 0))
        ELSE Raise("ValueError")

\* a JSON value as json.load returns it; n is the int, the truncated float
\* or the bool as 0/1, s the characters of a string
JInt(n)   == [t |-> "int", n |-> n, s |-> <<>>]
JFloat(n) == [t |-> "float", n |-> n, s |-> <<>>]
JBool(n)  == [t |-> "bool", n |-> n, s |-> <<>>]
JStr(s)   == [t |-> "str", n |-> 0, s |-> s]
JNull     == [t |-> "null", n |-> 0, s |-> <<>>]
JList     == [t |-> "list", n |-> 0, s |-> <<>>]
JDict     == [t |-> "dict", n |-> 0, s |-> <<>>]
JNaN      == [t |-> "nan", n |-> 0, s |-> <<>>]
JInf      == [t |-> "inf", n |-> 0, s |-> <<>>]

\* int(v) for a value read from JSON
PyInt(v) ==
    CASE v.t \in {"int", "float", "bool"} -> Return(v.n)
      [] v.t = "str"                      -> PyIntStr(v.s)
      [] v.t = "nan"                      -> Raise("ValueError")
      [] v.t = "inf"                      -> Raise("OverflowError")
      [] OTHER                            -> Raise("TypeError")

(***************************************************************************)
(* Threshold resolution.                                                   *)
(***************************************************************************)
DEFAULT_THRESHOLD == 500

\* an except clause: the exceptions it names end the block, others propagate
Except(out, caught) ==
    IF out.kind = "raise" /\ out.exc \in caught THEN Pass ELSE out

\* a settings.json document: its top-level type, whether
\* `"largeFileThreshold" in settings` is true, and the value under the key
Doc(top, has, val) == [top |-> top, has |-> has, val |-> val]

\* settings["largeFileThreshold"] after the membership test
SettingsLookup(doc) ==
    CASE doc.top = "object"                -> IF doc.has THEN PyInt(doc.val) ELSE Pass
      [] doc.top \in {"array", "string"}   -> IF doc.has THEN Raise("TypeError") ELSE Pass
      [] OTHER                             -> Raise("TypeError")

\* hook_utils.get_large_file_threshold, the settings.json block
SettingsStage(h, sj) ==
    IF ~h \/ sj.kind = "missing" THEN Pass
    ELSE Except(CASE sj.kind = "unreadable" -> Raise("OSError")
                  [] sj.kind = "malformed"  -> Raise("JSONDecodeError")
                  [] OTHER                  -> SettingsLookup(sj.doc),
                {"OSError", "ValueError", "JSONDecodeError"})

\* int(os.environ.get("LARGE_FILE_THRESHOLD")) when the text is truthy
EnvStage(env) ==
    IF env.set /\ env.text # <<>>
    THEN Except(PyIntStr(env.text), {"ValueError"})
    ELSE Pass

\* large-file-guard get_threshold, the config file block
ConfigStage(h, cf) ==
    IF ~h \/ cf.kind = "missing" THEN Pass
    ELSE Except(IF cf.kind = "unreadable" THEN Raise("OSError")
                ELSE PyIntStr(Strip(cf.text)),
                {"ValueError", "OSError"})

OrElse(a, b) == IF a.kind = "pass" THEN b ELSE a

\* get_threshold with the config file read before the environment variable
get_threshold_ConfigFirst(env, h, cf) ==
    OrElse(ConfigStage(h, cf), OrElse(EnvStage(env), Return(DEFAULT_THRESHOLD)))

\* large-file-guard.py get_threshold
get_threshold(env, h, cf) ==
    OrElse(EnvStage(env), OrElse(ConfigStage(h, cf), Return(DEFAULT_THRESHOLD)))

\* hook_utils.py get_large_file_threshold
get_large_file_threshold(env, h, sj) ==
    OrElse(SettingsStage(h, sj), OrElse(EnvStage(env), Return(500)))


(***************************************************************************)
(* Inputs of the resolvers.                                                *)
(***************************************************************************)
TextChars == {"0", "7", "-", " ", "x"}
\* every text over TextChars of at most MaxTextLen characters
Texts == UNION {[1..n -> TextChars] : n \in 0..MaxTextLen}

Unset      == [set |-> FALSE, text |-> <<>>]
EnvText(s) == [set |-> TRUE, text |-> s]
EnvValues  == {Unset} \cup {EnvText(s) : s \in Texts}

NoFileText     == [kind |-> "missing", text |-> <<>>]
Unreadable     == [kind |-> "unreadable", text |-> <<>>]
FileText(s)    == [kind |-> "text", text |-> s]
ConfigFiles ==
    {NoFileText, Unreadable, FileText(<<>>), FileText(<<"2", "0", "0", "\n">>),
     FileText(<<"0">>), FileText(<<"-", "7">>), FileText(<<"x", "\n">>),
     FileText(<<" ", "7", "0", " ">>)}

SettingsValues ==
    {JInt(1000), JInt(0), JInt(-3), JFloat(12), JBool(1),
     JStr(<<"7", "5", "0">>), JStr(<<"x">>), JNull, JList, JDict, JNaN, JInf}
SettingsDocs ==
    {Doc("object", TRUE, v) : v \in SettingsValues}
        \cup {Doc("object", FALSE, JNull), Doc("number", FALSE, JNull),
              Doc("null", FALSE, JNull)}
        \cup {Doc(top, has, JNull) : top \in {"array", "string"}, has \in BOOLEAN}
NoSettings == [kind |-> "missing", doc |-> Doc("null", FALSE, JNull)]
SettingsFiles ==
    {NoSettings,
     [kind |-> "unreadable", doc |-> Doc("null", FALSE, JNull)],
     [kind |-> "malformed", doc |-> Doc("null", FALSE, JNull)]}
        \cup {[kind |-> "doc", doc |-> d] : d \in SettingsDocs}

NoCall == [fn |-> "none", out |-> Pass]

(***************************************************************************)
(* Idle values of the state a specification does not use.                  *)
(***************************************************************************)
NoMarker == -1
NoFile   == [exists |-> FALSE, size |-> 0, lines |-> 0, chars |-> 0,
             readable |-> FALSE]
NoEvent  == [kind |-> "none", tool |-> "none", path |-> FALSE, ext |-> "",
             offset |-> "absent", limit |-> "absent"]
NoRun    == [exit |-> -1, skipped |-> FALSE, checked |-> FALSE, threshold |-> 0,
             exceeds |-> FALSE, lines |-> 0, tokens |-> 0, counted |-> FALSE]

SessionIds == {"s1", "s2", "s3"}
Never      == NoMarker
NoSessCall == [fn |-> "none", sid |-> "none", at |-> 0, result |-> FALSE,
               prior |-> Never,
               before |-> [s \in SessionIds |-> NoMarker], failed |-> {}]
SessionIdle ==
    /\ markers = [s \in SessionIds |-> NoMarker]
    /\ now = 0
    /\ sess = NoSessCall
    /\ called = [s \in SessionIds |-> Never]

\* no hook process has run, and nothing a hook reads is present
NoText     == [kind |-> "absent", lines |-> <<>>]
NoToml     == [kind |-> "absent", doc |-> <<>>]
NoStdin    == [kind |-> "none"]
NoPrograms == [git |-> "none", claude |-> "none"]
NoHookRun  == [hook |-> "none", exit |-> -1]
\* no project is scanned and no concurrent processes run
RestIdle ==
    /\ projectFiles = <<>>
    /\ procs = <<>>
HooksIdle ==
    /\ projectDir = FALSE
    /\ disabledHooks = NoText
    /\ systemToml = NoToml
    /\ projectToml = NoToml
    /\ flagFiles = <<>>
    /\ stdin = NoStdin
    /\ changelog = NoText
    /\ skipEnv = FALSE
    /\ git = NoPrograms
    /\ run = NoHookRun

(***************************************************************************)
(* SpecThreshold: both resolvers, called in every environment.             *)
(***************************************************************************)
\* a call of large-file-guard get_threshold()
GetThreshold ==
    /\ thr' = [fn |-> "get_threshold",
               out |-> get_threshold(envThreshold, home, guardConfig)]
    /\ UNCHANGED <<restVars, envVars, hookVars, guardVars, sessVars>>

\* a call of hook_utils.get_large_file_threshold()
GetLargeFileThreshold ==
    /\ thr' = [fn |-> "get_large_file_threshold",
               out |-> get_large_file_threshold(envThreshold, home, settingsJson)]
    /\ UNCHANGED <<restVars, envVars, hookVars, guardVars, sessVars>>

GuardIdle ==
    /\ allowLargeRead = FALSE
    /\ file = NoFile
    /\ request = NoEvent
    /\ guard = NoRun

InitThreshold ==
    /\ RestIdle
    /\ envThreshold \in EnvValues
    /\ home \in BOOLEAN
    /\ guardConfig \in ConfigFiles
    /\ settingsJson \in SettingsFiles
    /\ thr = NoCall
    /\ GuardIdle
    /\ SessionIdle
    /\ HooksIdle

NextThreshold == GetThreshold \/ GetLargeFileThreshold

SpecThreshold == InitThreshold /\ [][NextThreshold]_vars


(***************************************************************************)
(* large-file-guard: the admission gate for the Read tool.                 *)
(***************************************************************************)
INSTANT_ALLOW_BYTES == 5 * 1024
INSTANT_BLOCK_BYTES == 100 * 1024

BINARY_EXTENSIONS ==
    {".png", ".jpg", ".jpeg", ".gif", ".pdf", ".ico", ".woff", ".ttf", ".zip",
     ".tar", ".gz"}
CODE_EXTENSIONS ==
    {".py", ".js", ".ts", ".go", ".rs", ".java", ".cpp", ".c", ".h", ".rb",
     ".php", ".swift", ".kt", ".tsx", ".jsx"}
DATA_EXTENSIONS == {".json", ".yaml", ".yml", ".xml", ".csv", ".toml"}

\* str.lower() on the suffixes the model draws
Lower(ext) ==
    CASE ext = ".PNG" -> ".png"
      [] ext = ".Py"  -> ".py"
      [] ext = ".MD"  -> ".md"
      [] OTHER        -> ext

\* hook_utils.classify_file, on the suffix of the path
classify_file(ext) ==
    LET e == Lower(ext)
    IN  IF e \in BINARY_EXTENSIONS THEN "binary"
        ELSE IF e \in CODE_EXTENSIONS THEN "code"
        ELSE IF e \in DATA_EXTENSIONS THEN "data"
        ELSE "unknown"

\* `value is not None` for a tool_input.get(...) result; a missing key and a
\* JSON null both give None, every other JSON value (0 included) does not
NotNone(v) == v \notin {"absent", "null"}

\* should_skip_check with truthiness tests instead of `is not None`
should_skip_check_Truthy(allow, req, f) ==
    \/ allow
    \/ classify_file(req.ext) = "binary"
    \/ req.offset \notin {"absent", "null", "0"}
    \/ req.limit \notin {"absent", "null", "0"}
    \/ ~f.exists

\* large-file-guard.py should_skip_check
should_skip_check(allow, req, f) ==
    \/ allow
    \/ classify_file(req.ext) = "binary"
    \/ NotNone(req.offset)
    \/ NotNone(req.limit)
    \/ ~f.exists

\* get_file_size_bytes: st_size, or 0 when stat raises OSError
get_file_size_bytes(f) == IF f.exists THEN f.size ELSE 0

\* hook_utils.count_lines: the streamed line count, or 0 when open raises
count_lines(f) == IF f.exists /\ f.readable THEN f.lines ELSE 0

\* int(n / 3.5) for n >= 0
BytesToTokens(n) == (2 * n) \div 7

\* hook_utils.estimate_tokens on the decoded content
estimate_tokens(chars) == IF chars = 0 THEN 0 ELSE BytesToTokens(chars)

Sized(exceeds, lines, tokens, counted) ==
    [exceeds |-> exceeds, lines |-> lines, tokens |-> tokens, counted |-> counted]

\* check_file_size with the threshold itself counted as too large
check_file_size_Inclusive(f, threshold) ==
    LET size_bytes == get_file_size_bytes(f)
        line_count == count_lines(f)
    IN  IF size_bytes < INSTANT_ALLOW_BYTES THEN Sized(FALSE, 0, 0, FALSE)
        ELSE IF size_bytes > INSTANT_BLOCK_BYTES
        THEN Sized(TRUE, size_bytes \div 80, BytesToTokens(size_bytes), FALSE)
        ELSE IF line_count >= threshold
        THEN Sized(TRUE, line_count,
                   IF f.readable THEN estimate_tokens(f.chars)
                   ELSE BytesToTokens(size_bytes), TRUE)
        ELSE Sized(FALSE, line_count, 0, TRUE)

\* check_file_size with the instant-allow test including 5120 bytes
check_file_size_AllowAt5120(f, threshold) ==
    LET size_bytes == get_file_size_bytes(f)
        line_count == count_lines(f)
    IN  IF size_bytes <= INSTANT_ALLOW_BYTES THEN Sized(FALSE, 0, 0, FALSE)
        ELSE IF size_bytes > INSTANT_BLOCK_BYTES
        THEN Sized(TRUE, size_bytes \div 80, BytesToTokens(size_bytes), FALSE)
        ELSE IF line_count > threshold
        THEN Sized(TRUE, line_count,
                   IF f.readable THEN estimate_tokens(f.chars)
                   ELSE BytesToTokens(size_bytes), TRUE)
        ELSE Sized(FALSE, line_count, 0, TRUE)

\* large-file-guard.py check_file_size: (exceeds, line_count, tokens), and
\* whether the file was opened to count its lines
check_file_size(f, threshold) ==
    LET size_bytes == get_file_size_bytes(f)
        line_count == count_lines(f)
    IN  IF size_bytes < INSTANT_ALLOW_BYTES THEN Sized(FALSE, 0, 0, FALSE)
        ELSE IF size_bytes > INSTANT_BLOCK_BYTES
        THEN Sized(TRUE, size_bytes \div 80, BytesToTokens(size_bytes), FALSE)
        ELSE IF line_count > threshold
        THEN Sized(TRUE, line_count,
                   IF f.readable THEN estimate_tokens(f.chars)
                   ELSE BytesToTokens(size_bytes), TRUE)
        ELSE Sized(FALSE, line_count, 0, TRUE)

Exit(code) ==
    [exit |-> code, skipped |-> FALSE, checked |-> FALSE, threshold |-> 0,
     exceeds |-> FALSE, lines |-> 0, tokens |-> 0, counted |-> FALSE]

\* large-file-guard.py main, from reading stdin to sys.exit
GuardOutcome(allow, req, f, env, h, cf) ==
    IF req.kind # "event" THEN Exit(0)          \* json.loads raised
    ELSE IF req.tool # "Read" THEN Exit(0)
    ELSE IF ~req.path THEN Exit(0)
    ELSE IF should_skip_check(allow, req, f)
    THEN [Exit(0) EXCEPT !.skipped = TRUE]
    ELSE LET t == get_threshold(env, h, cf)
         IN  IF t.kind # "return" THEN Exit(0)  \* except Exception
             ELSE LET c == check_file_size(f, t.val)
                  IN  [exit |-> IF c.exceeds THEN 2 ELSE 0,
                       skipped |-> FALSE, checked |-> TRUE,
                       threshold |-> t.val, exceeds |-> c.exceeds,
                       lines |-> c.lines, tokens |-> c.tokens,
                       counted |-> c.counted]

\* one run of the hook on the event and the file of the state
LargeFileGuardMain ==
    /\ guard' = GuardOutcome(allowLargeRead, request, file, envThreshold, home,
                             guardConfig)
    /\ UNCHANGED <<restVars, envVars, hookVars, thr, allowLargeRead, file, request, sessVars>>

(***************************************************************************)
(* SpecGuard: one Read event, one file, one environment per behaviour.     *)
(***************************************************************************)
FileSizes == {4000, 5119, 5120, 6000, 102400, 102401, 110000}
LineCounts == {0, 7, 8, 200, 201, 500, 501}
\* text files; the decoded length equals the byte size
Files ==
    {NoFile, [exists |-> TRUE, size |-> 0, lines |-> 0, chars |-> 0,
              readable |-> TRUE]}
        \cup {[exists |-> TRUE, size |-> sz, lines |-> n, chars |-> sz,
               readable |-> r] :
                 sz \in FileSizes, n \in LineCounts, r \in BOOLEAN}

Extensions == {".png", ".PNG", ".py", ".txt"}
Offsets == {"absent", "null", "0", "100"}
Limits  == {"absent", "null", "50"}
ReadEvent(ext, offset, limit) ==
    [kind |-> "event", tool |-> "Read", path |-> TRUE, ext |-> ext,
     offset |-> offset, limit |-> limit]
Events ==
    {[NoEvent EXCEPT !.kind = "malformed"],
     [ReadEvent(".py", "absent", "absent") EXCEPT !.tool = "Write"],
     [ReadEvent("", "absent", "absent") EXCEPT !.path = FALSE]}
        \cup {ReadEvent(e, o, l) : e \in Extensions, o \in Offsets, l \in Limits}

GuardEnvValues ==
    {Unset, EnvText(<<"7">>), EnvText(<<"7", "0", "0", "0">>),
     EnvText(<<"-", "7">>), EnvText(<<"x">>)}
GuardConfigFiles == {NoFileText, FileText(<<"2", "0", "0", "\n">>)}

InitGuard ==
    /\ RestIdle
    /\ envThreshold \in GuardEnvValues
    /\ home = TRUE
    /\ guardConfig \in GuardConfigFiles
    /\ settingsJson = NoSettings
    /\ thr = NoCall
    /\ allowLargeRead \in BOOLEAN
    /\ file \in Files
    /\ request \in Events
    /\ guard = NoRun
    /\ SessionIdle
    /\ HooksIdle

NextGuard == LargeFileGuardMain

SpecGuard == InitGuard /\ [][NextGuard]_vars

(***************************************************************************)
(* serena_awareness: the session marker tracker.                           *)
(*                                                                         *)
(* markers[s] is the mtime of <s>.seen in the marker directory, or         *)
(* NoMarker.  Session ids are the non-empty strings main() passes on.      *)
(***************************************************************************)
SESSION_MARKER_MAX_AGE_DAYS == 7
SecondsPerDay == 86400

\* cutoff = time.time() - (SESSION_MARKER_MAX_AGE_DAYS * 86400)
Cutoff(t) == t - (SESSION_MARKER_MAX_AGE_DAYS * SecondsPerDay)

\* the markers of the glob whose stat().st_mtime is below the cutoff
Stale(dir, current_session_id, t) ==
    {s \in SessionIds : /\ s # current_session_id
                        /\ dir[s] # NoMarker
                        /\ dir[s] < Cutoff(t)}

\* the sweep without the test that spares the current session
cleanup_NoSelfCheck(dir, current_session_id, t, failed) ==
    [s \in SessionIds |->
        IF dir[s] # NoMarker /\ dir[s] < Cutoff(t) /\ s \notin failed
        THEN NoMarker ELSE dir[s]]

\* the sweep with a marker exactly at the cutoff removed as well
cleanup_Inclusive(dir, current_session_id, t, failed) ==
    [s \in SessionIds |->
        IF /\ s # current_session_id
           /\ dir[s] # NoMarker
           /\ dir[s] <= Cutoff(t)
           /\ s \notin failed
        THEN NoMarker ELSE dir[s]]

\* cleanup_old_session_markers: the directory after the sweep; failed are
\* the markers whose stat or unlink raised OSError
cleanup_old_session_markers(dir, current_session_id, t, failed) ==
    [s \in SessionIds |->
        IF s \in Stale(dir, current_session_id, t) /\ s \notin failed
        THEN NoMarker ELSE dir[s]]

\* is_first computed after the touch
is_first_AfterTouch(dir, session_id, t) ==
    [is_first |-> FALSE, touched |-> [dir EXCEPT ![session_id] = t]]

\* is_first_prompt_in_session up to the sweep: the exists() test and touch()
is_first_prompt_in_session(dir, session_id, t) ==
    [is_first |-> dir[session_id] = NoMarker,
     touched  |-> [dir EXCEPT ![session_id] = t]]

\* a call of is_first_prompt_in_session(sid), sweep included
IsFirstPromptInSession(sid) ==
    LET r == is_first_prompt_in_session(markers, sid, now)
    IN  \E failed \in SUBSET Stale(r.touched, sid, now) :
            /\ markers' = cleanup_old_session_markers(r.touched, sid, now, failed)
            /\ sess' = [fn |-> "is_first_prompt_in_session", sid |-> sid, at |-> now,
                        result |-> r.is_first, prior |-> called[sid],
                        before |-> r.touched, failed |-> failed]
            /\ called' = [called EXCEPT ![sid] = now]
            /\ UNCHANGED <<restVars, envVars, hookVars, thr, guardVars, now>>

\* a call of cleanup_old_session_markers(sid) on its own
CleanupOldSessionMarkers(sid) ==
    \E failed \in SUBSET Stale(markers, sid, now) :
        /\ markers' = cleanup_old_session_markers(markers, sid, now, failed)
        /\ sess' = [fn |-> "cleanup_old_session_markers", sid |-> sid, at |-> now,
                    result |-> FALSE, prior |-> called[sid],
                    before |-> markers, failed |-> failed]
        /\ UNCHANGED <<restVars, envVars, hookVars, thr, guardVars, now, called>>

\* a day passes between two hook invocations
Tick ==
    /\ now < MaxDays * SecondsPerDay
    /\ now' = now + SecondsPerDay
    /\ UNCHANGED <<restVars, envVars, hookVars, thr, guardVars, markers, sess, called>>

InitSession ==
    /\ RestIdle
    /\ envThreshold = Unset
    /\ home = TRUE
    /\ guardConfig = NoFileText
    /\ settingsJson = NoSettings
    /\ thr = NoCall
    /\ GuardIdle
    /\ SessionIdle
    /\ HooksIdle

\* SpecSession: the calls the hook makes, one per prompt
NextSession ==
    \/ \E sid \in SessionIds : IsFirstPromptInSession(sid)
    \/ Tick

SpecSession == InitSession /\ [][NextSession]_vars

\* SpecSweep: the sweep is also called on its own
NextSweep ==
    \/ \E sid \in SessionIds : IsFirstPromptInSession(sid)
    \/ \E sid \in SessionIds : CleanupOldSessionMarkers(sid)
    \/ Tick

SpecSweep == InitSession /\ [][NextSweep]_vars

(***************************************************************************)
(* Properties of threshold resolution (SpecThreshold).                     *)
(***************************************************************************)
\* LARGE_FILE_THRESHOLD holds a decimal integer
EnvDecimal == envThreshold.set /\ PyIntStr(envThreshold.text).kind = "return"
EnvInt     == PyIntStr(envThreshold.text).val

\* the per-user files hold nothing and the variable is not set
NoConfigAnywhere ==
    /\ ~envThreshold.set
    /\ ~home \/ (guardConfig.kind = "missing" /\ settingsJson.kind = "missing")

\* settings.json is readable JSON, an object whose largeFileThreshold
\* converts to an int
SettingsYields ==
    /\ home
    /\ settingsJson.kind = "doc"
    /\ settingsJson.doc.top = "object"
    /\ settingsJson.doc.has
    /\ PyInt(settingsJson.doc.val).kind = "return"
SettingsInt == PyInt(settingsJson.doc.val).val

Resolved == thr.fn # "none"

\* C4 as stated: in both resolvers a decimal LARGE_FILE_THRESHOLD is returned
\* whatever the per-user files hold, and with no configuration the result is 500
C4_EnvWinsInBothResolvers ==
    Resolved =>
        /\ EnvDecimal => thr.out = Return(EnvInt)
        /\ NoConfigAnywhere => thr.out = Return(500)

\* C4 amended: get_threshold returns a decimal LARGE_FILE_THRESHOLD whatever
\* hook-large-file-guard-config holds; a value taken from that file means the
\* variable was absent or unparsable; with no configuration anywhere both
\* resolvers return exactly 500
C4_EnvWinsInGetThreshold ==
    /\ thr.fn = "get_threshold" =>
        /\ EnvDecimal => thr.out = Return(EnvInt)
        /\ ~EnvDecimal /\ home /\ guardConfig.kind = "text"
             /\ PyIntStr(guardConfig.text).kind = "return"
           => thr.out = Return(PyIntStr(guardConfig.text).val)
    /\ Resolved /\ NoConfigAnywhere => thr.out = Return(500)

\* C4 witness: the variable and the config file disagree and the variable won
C4_Witness ==
    /\ thr.fn = "get_threshold"
    /\ EnvDecimal
    /\ home
    /\ guardConfig = FileText(<<"2", "0", "0", "\n">>)
    /\ EnvInt = 70
    /\ thr.out = Return(70)

\* C5 as stated: get_large_file_threshold returns the settings.json value
\* when there is one, else the LARGE_FILE_THRESHOLD value when there is one,
\* else 500
C5_SettingsThenEnvThenDefault ==
    thr.fn = "get_large_file_threshold" =>
        thr.out = IF SettingsYields THEN Return(SettingsInt)
                  ELSE IF EnvDecimal THEN Return(EnvInt)
                  ELSE Return(500)

\* C6 as stated: a returned threshold is a positive integer
C6_ThresholdPositive ==
    Resolved /\ thr.out.kind = "return" => thr.out.val >= 1

\* C7 as stated: threshold resolution never raises
C7_ResolutionNeverRaises ==
    Resolved => thr.out.kind = "return"


(***************************************************************************)
(* Properties of the admission gate (SpecGuard).                           *)
(***************************************************************************)
\* the hook has run on a Read event that names a file
ReadRan == guard.exit # -1 /\ request.kind = "event" /\ request.tool = "Read"
               /\ request.path

\* the skip conditions of the gate, read off the event and the environment
SkipEligible ==
    \/ allowLargeRead
    \/ Lower(request.ext) \in BINARY_EXTENSIONS
    \/ request.offset \notin {"absent", "null"}
    \/ request.limit \notin {"absent", "null"}
    \/ ~file.exists

Tiny == file.size < 5120
Huge == file.size > 102400
\* the lines a streaming count gives: none when the file cannot be opened
StreamedLines == IF file.readable THEN file.lines ELSE 0

C2_ByteSizeBeforeLines ==
    guard.checked =>
        /\ Tiny => ~guard.exceeds /\ ~guard.counted
        /\ Huge => /\ guard.exceeds
                   /\ ~guard.counted
                   /\ guard.lines = file.size \div 80
                   /\ 7 * guard.tokens <= 2 * file.size
                   /\ 2 * file.size < 7 * (guard.tokens + 1)
        /\ ~Tiny /\ ~Huge =>
               /\ guard.exceeds <=> StreamedLines > guard.threshold
               /\ guard.lines = StreamedLines

\* C2 witness: a mid-range file with exactly threshold lines was allowed
C2_Witness ==
    /\ guard.checked
    /\ file.size = 5120
    /\ file.readable
    /\ file.lines = 500
    /\ guard.threshold = 500
    /\ ~guard.exceeds
    /\ guard.exit = 0

FirstPromptCalled == sess.fn = "is_first_prompt_in_session"
Swept             == sess.fn # "none"
RetentionSeconds  == 7 * 86400

\* C8 as stated: the first call for a session id returns true and creates
\* its marker, and every later call for that id returns false
C8_FirstCallOnlyIsTrue ==
    FirstPromptCalled =>
        /\ sess.result <=> sess.prior = Never
        /\ markers[sess.sid] # NoMarker

\* C8 amended: the first call for a session id returns true and creates its
\* marker, and a later call for that id returns false whenever it comes
\* within 7 days of the previous call for that id; a call that returns true
\* is a first call or follows a gap of more than 7 days
C8_FirstCallTrueLaterFalseWithinRetention ==
    FirstPromptCalled =>
        /\ sess.prior = Never => sess.result
        /\ sess.prior # Never /\ sess.at - sess.prior <= RetentionSeconds
               => ~sess.result
        /\ markers[sess.sid] = sess.at

\* C8 witness: a second call for one id returned false although another
\* session had been called in between and days had passed
C8_Witness ==
    /\ FirstPromptCalled
    /\ sess.sid = "s1"
    /\ sess.prior # Never
    /\ sess.at - sess.prior = RetentionSeconds
    /\ called["s2"] > sess.prior
    /\ ~sess.result

\* C9: the sweep never deletes the marker of the session id passed as
\* current, whatever its modification time
C9_CurrentMarkerKept ==
    Swept /\ sess.before[sess.sid] # NoMarker =>
        markers[sess.sid] = sess.before[sess.sid]

\* C9 witness: the current session's marker was older than the retention
\* window, no unlink failed, and the marker is still there
C9_Witness ==
    /\ sess.fn = "cleanup_old_session_markers"
    /\ sess.before[sess.sid] # NoMarker
    /\ sess.at - sess.before[sess.sid] > RetentionSeconds
    /\ sess.failed = {}
    /\ markers[sess.sid] = sess.before[sess.sid]
    /\ \E s \in SessionIds : sess.before[s] # NoMarker /\ markers[s] = NoMarker

\* C10: a sweep removes only other sessions' markers with
\* mtime < sess.at - 7*86400; a marker modified within the last 7 days is left
\* unchanged, and an older marker of another session is removed unless its
\* stat or unlink failed
C10_SweepRemovesOnlyStale ==
    Swept =>
        \A s \in SessionIds :
            LET old == /\ sess.before[s] # NoMarker
                       /\ sess.before[s] < sess.at - RetentionSeconds
            IN  /\ markers[s] # sess.before[s]
                    => s # sess.sid /\ old /\ markers[s] = NoMarker
                /\ ~old => markers[s] = sess.before[s]
                /\ old /\ s # sess.sid /\ s \notin sess.failed
                    => markers[s] = NoMarker

\* C10 witness: one sweep kept a marker exactly 7 days old and removed one
\* that was older
C10_Witness ==
    /\ Swept
    /\ \E s \in SessionIds :
           /\ sess.before[s] = sess.at - RetentionSeconds
           /\ markers[s] = sess.before[s]
    /\ \E s \in SessionIds :
           /\ sess.before[s] # NoMarker
           /\ sess.before[s] < sess.at - RetentionSeconds
           /\ markers[s] = NoMarker

(***************************************************************************)
(* hook_utils: the disabled-hooks file.                                    *)
(*                                                                         *)
(* A line of the file is a sequence of units: a whitespace character, "#", *)
(* or a whole word such as a hook name.                                    *)
(***************************************************************************)
\* is_hook_disabled that compares the raw line, newline included
is_hook_disabled_NoStrip(hook_name, pd, f) ==
    IF ~pd THEN Return(FALSE)
    ELSE IF f.kind = "absent" THEN Return(FALSE)
    ELSE IF f.kind = "unreadable" THEN Return(FALSE)
    ELSE IF f.kind = "undecodable" THEN Raise("UnicodeDecodeError")
    ELSE Return(\E i \in DOMAIN f.lines :
                    LET line == f.lines[i]
                    IN  /\ line # <<>>
                        /\ Head(line) # "#"
                        /\ line = <<hook_name>>)

\* hook_utils.is_hook_disabled(hook_name).  The files of the model fit one
\* read chunk, so bytes that are not UTF-8 raise before the first line
\* is seen.
is_hook_disabled(hook_name, pd, f) ==
    IF ~pd THEN Return(FALSE)
    ELSE IF f.kind = "absent" THEN Return(FALSE)
    ELSE IF f.kind = "unreadable" THEN Return(FALSE)
    ELSE IF f.kind = "undecodable" THEN Raise("UnicodeDecodeError")
    ELSE Return(\E i \in DOMAIN f.lines :
                    LET line == Strip(f.lines[i])
                    IN  /\ line # <<>>
                        /\ Head(line) # "#"
                        /\ line = <<hook_name>>)

(***************************************************************************)
(* prompt-flag-appender.  A str is a sequence of characters.               *)
(***************************************************************************)
TRIGGER_PREFIX == "+"
\* the reserved section name "_always"
AlwaysKey == <<"_", "a", "l", "w", "a", "y", "s">>

\* str | None
Some(s) == [some |-> TRUE, s |-> s]
None    == [some |-> FALSE, s |-> <<>>]
\* `if x:` on a str | None
Truthy(x) == x.some /\ x.s # <<>>

\* a value of the parsed TOML document: a table with an aliases list and a
\* content value, or a scalar
StrContent(s) == [str |-> TRUE, text |-> s]
NoContent     == [str |-> FALSE, text |-> <<>>]
Table(aliases, content) ==
    [table |-> TRUE, aliases |-> aliases, content |-> content]
Scalar == [table |-> FALSE, aliases |-> <<>>, content |-> NoContent]
\* one item of a dict, which keeps its items in insertion order
Item(k, v) == [key |-> k, entry |-> v]

Keys(config) == {config[i].key : i \in DOMAIN config}
IndexOf(config, k) == CHOOSE i \in DOMAIN config : config[i].key = k

\* dict.update: a key that is present keeps its place and takes the whole
\* new value, a new key is appended
RECURSIVE DictUpdate(_, _)
DictUpdate(config, other) ==
    IF other = <<>> THEN config
    ELSE LET it == Head(other)
             merged == IF it.key \in Keys(config)
                       THEN [config EXCEPT ![IndexOf(config, it.key)] = it]
                       ELSE Append(config, it)
         IN  DictUpdate(merged, Tail(other))

\* tomllib.load on an open file
TomlLoad(f) ==
    CASE f.kind = "toml"        -> [kind |-> "return", doc |-> f.doc]
      [] f.kind = "malformed"   -> [kind |-> "TOMLDecodeError", doc |-> <<>>]
      [] f.kind = "undecodable" -> [kind |-> "UnicodeDecodeError", doc |-> <<>>]

\* load_config(): the merged config, the warnings printed on stderr, and the
\* exception that propagates, if any
load_config(pd, sys, proj) ==
    LET s == IF sys.kind = "absent" THEN [kind |-> "return", doc |-> <<>>]
             ELSE TomlLoad(sys)
        config == s.doc
        p == IF pd /\ proj.kind # "absent" THEN TomlLoad(proj)
             ELSE [kind |-> "return", doc |-> <<>>]
    IN  IF s.kind = "UnicodeDecodeError"
        THEN [exc |-> s.kind, config |-> <<>>, warnings |-> 0]
        ELSE LET w1 == IF s.kind = "TOMLDecodeError" THEN 1 ELSE 0
             IN  CASE p.kind = "UnicodeDecodeError" ->
                        [exc |-> p.kind, config |-> <<>>, warnings |-> w1]
                   [] p.kind = "TOMLDecodeError" ->
                        [exc |-> "none", config |-> config,
                         warnings |-> w1 + 1]
                   [] OTHER ->
                        [exc |-> "none", config |-> DictUpdate(config, p.doc),
                         warnings |-> w1]

\* alias_map[alias] = trigger_name, on a dict kept as a sequence of items
AliasPut(m, alias, name) == Append(SelectSeq(m, LAMBDA it : it.key # alias),
                                   [key |-> alias, name |-> name])

RECURSIVE AliasPutAll(_, _, _)
AliasPutAll(m, aliases, name) ==
    IF aliases = <<>> THEN m
    ELSE AliasPutAll(AliasPut(m, Head(aliases), name), Tail(aliases), name)

RECURSIVE build_alias_map_from(_, _)
build_alias_map_from(config, m) ==
    IF config = <<>> THEN m
    ELSE LET it == Head(config)
             skip == (it.key # <<>> /\ Head(it.key) = "_") \/ ~it.entry.table
         IN  build_alias_map_from(
                 Tail(config),
                 IF skip THEN m ELSE AliasPutAll(m, it.entry.aliases, it.key))

build_alias_map(config) == build_alias_map_from(config, <<>>)

resolve_trigger(trigger, config, alias_map) ==
    IF trigger \in Keys(config) THEN Some(trigger)
    ELSE IF \E i \in DOMAIN alias_map : alias_map[i].key = trigger
    THEN Some(alias_map[CHOOSE i \in DOMAIN alias_map :
                            alias_map[i].key = trigger].name)
    ELSE None

get_trigger_content(trigger_name, config) ==
    IF trigger_name \notin Keys(config) THEN None
    ELSE LET trigger_config == config[IndexOf(config, trigger_name)].entry
         IN  IF ~trigger_config.table THEN None
             ELSE IF trigger_config.content.str
             THEN Some(Strip(trigger_config.content.text))
             ELSE None

get_always_fragment(config) == get_trigger_content(AlwaysKey, config)

\* the name of the flag file of a mode, and name[5:-8]
FlagFile(mode) ==
    <<"h", "o", "o", "k", "-">> \o mode
        \o <<"-", "m", "o", "d", "e", "-", "o", "n">>
ModeName(name) == SubSeq(name, 6, Len(name) - 8)

RECURSIVE mode_fragments_of(_, _, _)
mode_fragments_of(flags, config, alias_map) ==
    IF flags = <<>> THEN <<>>
    ELSE LET canonical == resolve_trigger(ModeName(Head(flags)), config,
                                          alias_map)
             content == IF Truthy(canonical)
                        THEN get_trigger_content(canonical.s, config)
                        ELSE None
             rest == mode_fragments_of(Tail(flags), config, alias_map)
         IN  IF Truthy(content) THEN <<content.s>> \o rest ELSE rest

get_active_mode_fragments(pd, flags, config, alias_map) ==
    IF ~pd THEN <<>> ELSE mode_fragments_of(flags, config, alias_map)

\* the two inner loops of the scan; text[k] is Python's text[k - 1]
RECURSIVE SkipSpace(_, _)
SkipSpace(text, k) ==
    IF k > 0 /\ text[k] \in Whitespace THEN SkipSpace(text, k - 1) ELSE k

RECURSIVE SkipToken(_, _)
SkipToken(text, k) ==
    IF k > 0 /\ text[k] \notin Whitespace THEN SkipToken(text, k - 1) ELSE k

\* one pass of `while last_keep > 0` that stops at the first candidate that
\* does not resolve
ScanStep_StopAtUnresolved(s, config, alias_map) ==
    LET end   == SkipSpace(s.text, s.last_keep)
        start == SkipToken(s.text, end)
        token == SubSeq(s.text, start + 1, end)
    IN  IF start = end
        THEN [s EXCEPT !.last_keep = start, !.done = TRUE]
        ELSE IF Head(token) = TRIGGER_PREFIX /\ Len(token) > 1
                /\ Truthy(resolve_trigger(Tail(token), config, alias_map))
        THEN [s EXCEPT !.last_keep = start,
                       !.triggers = Append(@, resolve_trigger(
                                        Tail(token), config, alias_map).s)]
        ELSE [s EXCEPT !.last_keep = end, !.done = TRUE]

\* one pass that collects the trigger and leaves last_keep at the end of the
\* token it has just read
ScanStep_NoAdvance(s, config, alias_map) ==
    LET end   == SkipSpace(s.text, s.last_keep)
        start == SkipToken(s.text, end)
        token == SubSeq(s.text, start + 1, end)
    IN  IF start = end
        THEN [s EXCEPT !.last_keep = start, !.done = TRUE]
        ELSE IF Head(token) = TRIGGER_PREFIX /\ Len(token) > 1
        THEN LET canonical == resolve_trigger(Tail(token), config, alias_map)
             IN  [s EXCEPT !.last_keep = end,
                           !.triggers = IF Truthy(canonical)
                                        THEN Append(@, canonical.s) ELSE @]
        ELSE [s EXCEPT !.last_keep = end, !.done = TRUE]

\* one pass of `while last_keep > 0` in split_prompt_and_triggers
ScanStep(s, config, alias_map) ==
    LET end   == SkipSpace(s.text, s.last_keep)
        start == SkipToken(s.text, end)
        token == SubSeq(s.text, start + 1, end)
    IN  IF start = end
        THEN [s EXCEPT !.last_keep = start, !.done = TRUE]
        ELSE IF Head(token) = TRIGGER_PREFIX /\ Len(token) > 1
        THEN LET canonical == resolve_trigger(Tail(token), config, alias_map)
             IN  [s EXCEPT !.last_keep = start,
                           !.triggers = IF Truthy(canonical)
                                        THEN Append(@, canonical.s) ELSE @]
        ELSE [s EXCEPT !.last_keep = end, !.done = TRUE]

RECURSIVE Scan(_, _, _)
Scan(s, config, alias_map) ==
    IF s.done \/ s.last_keep = 0 THEN s
    ELSE Scan(ScanStep(s, config, alias_map), config, alias_map)

RECURSIVE Reverse(_)
Reverse(q) == IF q = <<>> THEN <<>> ELSE Append(Reverse(Tail(q)), Head(q))

\* the `seen` loop of split_prompt_and_triggers
RECURSIVE Dedup(_, _)
Dedup(q, seen) ==
    IF q = <<>> THEN <<>>
    ELSE IF Head(q) \in seen THEN Dedup(Tail(q), seen)
    ELSE <<Head(q)>> \o Dedup(Tail(q), seen \cup {Head(q)})

split_prompt_and_triggers(prompt, config, alias_map) ==
    LET text == RStrip(prompt)
        s == Scan([text |-> text, last_keep |-> Len(text),
                   triggers |-> <<>>, done |-> FALSE], config, alias_map)
    IN  [base_prompt |-> RStrip(SubSeq(text, 1, s.last_keep)),
         triggers |-> Dedup(Reverse(s.triggers), {})]

RECURSIVE get_fragments_for_triggers(_, _)
get_fragments_for_triggers(triggers, config) ==
    IF triggers = <<>> THEN <<>>
    ELSE LET content == get_trigger_content(Head(triggers), config)
             rest == get_fragments_for_triggers(Tail(triggers), config)
         IN  IF Truthy(content) THEN <<content.s>> \o rest ELSE rest

\* "\n\n".join(parts)
RECURSIVE Join(_)
Join(parts) ==
    IF parts = <<>> THEN <<>>
    ELSE IF Len(parts) = 1 THEN Head(parts)
    ELSE Head(parts) \o <<"\n", "\n">> \o Join(Tail(parts))

\* build_prompt with the fragments ahead of the prompt
build_prompt_FragmentsFirst(prompt, fragments) ==
    IF fragments = <<>> THEN prompt
    ELSE Join(fragments \o (IF prompt # <<>> THEN <<prompt>> ELSE <<>>))

build_prompt(prompt, fragments) ==
    IF fragments = <<>> THEN prompt
    ELSE Join((IF prompt # <<>> THEN <<prompt>> ELSE <<>>) \o fragments)

\* a process that leaves status 0 whatever it was told to exit with
PromptRun_ExitZero(code) ==
    [hook |-> "prompt-flag-appender", exit |-> 0, printed |-> FALSE,
     stdout |-> <<>>, stderr |-> 0, readStdin |-> FALSE, loaded |-> FALSE,
     config |-> <<>>, base |-> <<>>, triggers |-> <<>>, always |-> None,
     modes |-> <<>>, frags |-> <<>>]

\* what a prompt-flag-appender process leaves behind
PromptRun(code) ==
    [hook |-> "prompt-flag-appender", exit |-> code, printed |-> FALSE,
     stdout |-> <<>>, stderr |-> 0, readStdin |-> FALSE, loaded |-> FALSE,
     config |-> <<>>, base |-> <<>>, triggers |-> <<>>, always |-> None,
     modes |-> <<>>, frags |-> <<>>]

\* prompt-flag-appender.py main, from exit_if_disabled() to the exit status
PromptOutcome(pd, dis, sys, proj, flags, in) ==
    LET disabled  == is_hook_disabled("prompt-flag-appender", pd, dis)
        cfg       == load_config(pd, sys, proj)
        config    == cfg.config
        alias_map == build_alias_map(config)
        loaded    == [PromptRun(1) EXCEPT !.loaded = TRUE, !.config = config,
                                          !.stderr = cfg.warnings + 1,
                                          !.readStdin = TRUE]
        always_fragment == get_always_fragment(config)
        mode_fragments  == get_active_mode_fragments(pd, flags, config,
                                                     alias_map)
        split == split_prompt_and_triggers(in.text, config, alias_map)
        trigger_fragments == get_fragments_for_triggers(split.triggers, config)
        all_fragments ==
            (IF Truthy(always_fragment) THEN <<always_fragment.s>> ELSE <<>>)
                \o mode_fragments \o trigger_fragments
        result == build_prompt(split.base_prompt, all_fragments)
    IN  IF disabled.kind = "raise"
        THEN [PromptRun(1) EXCEPT !.stderr = 1]      \* uncaught: traceback
        ELSE IF disabled.val THEN PromptRun(0)       \* sys.exit(0)
        ELSE IF cfg.exc # "none"
        THEN [PromptRun(1) EXCEPT !.stderr = cfg.warnings + 1]
        ELSE IF in.kind # "json" THEN loaded         \* json.JSONDecodeError
        ELSE IF in.top # "dict" THEN loaded          \* AttributeError
        ELSE IF in.ptype # "str" THEN loaded         \* ValueError
        ELSE [PromptRun(0) EXCEPT
                 !.loaded = TRUE, !.config = config, !.stderr = cfg.warnings,
                 !.readStdin = TRUE, !.printed = TRUE,
                 !.stdout = result \o <<"\n">>,
                 !.base = split.base_prompt, !.triggers = split.triggers,
                 !.always = always_fragment, !.modes = mode_fragments,
                 !.frags = trigger_fragments]

(***************************************************************************)
(* SpecPrompt: one prompt-flag-appender process on every input.            *)
(***************************************************************************)
\* longest prompt that is enumerated
MaxPromptLen == 5

PromptChars == {"+", " ", "a", "b"}
\* longer prompts: a trigger-like token ahead of a lone "+", a run of
\* three trailing triggers that names one trigger twice, and a token that
\* names the reserved section
SamplePrompts ==
    {<<"+", "a", " ", "+", " ", "+", "b", " ", "+", "a", "b">>,
     <<"a", " ", "+", "b", " ", "+", "a", "\t", "+", "b", "\n">>,
     <<"a", " ", TRIGGER_PREFIX>> \o AlwaysKey}
Prompts == UNION {[1..n -> PromptChars] : n \in 0..MaxPromptLen}
               \cup SamplePrompts

\* UserPromptSubmit payloads: invalid JSON, a JSON value that is not an
\* object, and objects whose "prompt" is missing (so get() gives ""),
\* a string, or of another type
PromptEvent(p) == [kind |-> "json", top |-> "dict", ptype |-> "str", text |-> p]
InvalidJson    == [kind |-> "invalid", top |-> "none", ptype |-> "none",
                   text |-> <<>>]
BadPromptEvents ==
    {InvalidJson,
     [kind |-> "json", top |-> "list", ptype |-> "none", text |-> <<>>],
     [kind |-> "json", top |-> "dict", ptype |-> "int", text |-> <<>>],
     [kind |-> "json", top |-> "dict", ptype |-> "null", text |-> <<>>]}

Toml(doc)     == [kind |-> "toml", doc |-> doc]
MalformedToml == [kind |-> "malformed", doc |-> <<>>]
BinaryToml    == [kind |-> "undecodable", doc |-> <<>>]

KeyA == <<"a">>
KeyB == <<"b">>
SysAliased ==
    <<Item(KeyA, Table(<<KeyB>>, StrContent(<<" ", "A", "\n">>))),
      Item(AlwaysKey, Table(<<>>, StrContent(<<"W">>)))>>
SysPlain ==
    <<Item(KeyA, Table(<<>>, StrContent(<<"A">>))),
      Item(KeyB, Table(<<>>, StrContent(<<"B">>)))>>
SysEmptyKey ==
    <<Item(<<>>, Table(<<KeyA>>, StrContent(<<"E">>))),
      Item(KeyB, Table(<<>>, StrContent(<<" ">>)))>>
ProjReplace == <<Item(KeyA, Table(<<>>, StrContent(<<"X">>)))>>
ProjOdd ==
    <<Item(KeyB, Scalar), Item(KeyA, Table(<<KeyB>>, NoContent))>>

SystemTomls  == {NoToml, MalformedToml, BinaryToml, Toml(SysAliased),
                 Toml(SysPlain)}
ProjectTomls == {NoToml, MalformedToml, BinaryToml, Toml(ProjReplace),
                 Toml(ProjOdd)}
FlagSets == {<<>>, <<FlagFile(KeyA)>>, <<FlagFile(KeyB), FlagFile(KeyA)>>}

HookLine(name) == <<name, "\n">>
DisabledFiles(name) ==
    {NoText,
     [kind |-> "text", lines |-> <<<<"#", " ", name, "\n">>, <<"\n">>>>],
     [kind |-> "text", lines |-> <<<<"#", name, "\n">>,
                                   <<" ", name, "\t", "\n">>>>],
     [kind |-> "text", lines |-> <<<<"other-hook", "\n">>, <<name>>>>],
     [kind |-> "unreadable", lines |-> <<HookLine(name)>>],
     [kind |-> "undecodable", lines |-> <<HookLine(name)>>]}

PromptFlagAppenderMain ==
    /\ run = NoHookRun
    /\ run' = PromptOutcome(projectDir, disabledHooks, systemToml,
                            projectToml, flagFiles, stdin)
    /\ UNCHANGED <<restVars, envVars, thr, guardVars, sessVars, projectDir,
                   disabledHooks, systemToml, projectToml, flagFiles, stdin,
                   changelog, skipEnv, git>>

\* every prompt under a few configurations
InitPromptTexts ==
    /\ projectDir = TRUE
    /\ disabledHooks = NoText
    /\ systemToml \in {Toml(SysAliased), Toml(SysPlain), Toml(SysEmptyKey)}
    /\ projectToml = NoToml
    /\ flagFiles \in {<<>>, <<FlagFile(KeyB), FlagFile(KeyA)>>}
    /\ stdin \in {PromptEvent(p) : p \in Prompts}

\* every state of the files under a few payloads
InitPromptFiles ==
    /\ projectDir \in BOOLEAN
    /\ disabledHooks \in (IF projectDir
                          THEN DisabledFiles("prompt-flag-appender")
                          ELSE {NoText})
    /\ systemToml \in SystemTomls
    /\ projectToml \in (IF projectDir THEN ProjectTomls ELSE {NoToml})
    /\ flagFiles \in (IF projectDir THEN FlagSets ELSE {<<>>})
    /\ stdin \in BadPromptEvents
                 \cup {PromptEvent(<<>>), PromptEvent(<<"a", " ", "+", "b">>)}

InitPrompt ==
    /\ RestIdle
    /\ envThreshold = Unset
    /\ home = TRUE
    /\ guardConfig = NoFileText
    /\ settingsJson = NoSettings
    /\ thr = NoCall
    /\ GuardIdle
    /\ SessionIdle
    /\ changelog = NoText
    /\ skipEnv = FALSE
    /\ git = NoPrograms
    /\ run = NoHookRun
    /\ (InitPromptTexts \/ InitPromptFiles)

NextPrompt == PromptFlagAppenderMain

SpecPrompt == InitPrompt /\ [][NextPrompt]_vars

(***************************************************************************)
(* Properties of the prompt hook.                                          *)
(***************************************************************************)
\* the hook printed a prompt for a string prompt
Printed == run.hook = "prompt-flag-appender" /\ run.printed

\* a token is a maximal run of characters that are not whitespace
IsToken(p, i, j) ==
    /\ 1 <= i /\ i <= j /\ j <= Len(p)
    /\ \A k \in i..j : p[k] \notin Whitespace
    /\ i = 1 \/ p[i - 1] \in Whitespace
    /\ j = Len(p) \/ p[j + 1] \in Whitespace

\* the shape of a trigger candidate: the prefix and one more character
Candidate(tok) == Len(tok) > 1 /\ Head(tok) = TRIGGER_PREFIX

\* where the rightmost token that is not a candidate ends; 0 without one
KeepEnd(p) ==
    LET ends == {j \in 1..Len(p) :
                    \E i \in 1..j : IsToken(p, i, j)
                                    /\ ~Candidate(SubSeq(p, i, j))}
    IN  IF ends = {} THEN 0 ELSE CHOOSE j \in ends : \A k \in ends : k <= j

\* str.split()
RECURSIVE Split(_)
Split(s) ==
    LET t == LStrip(s)
        n == IF \E k \in 1..Len(t) : t[k] \in Whitespace
             THEN CHOOSE k \in 1..Len(t) :
                      /\ t[k] \in Whitespace
                      /\ \A l \in 1..(k - 1) : t[l] \notin Whitespace
             ELSE Len(t) + 1
    IN  IF t = <<>> THEN <<>>
        ELSE <<SubSeq(t, 1, n - 1)>> \o Split(SubSeq(t, n, Len(t)))

\* the trigger tokens that follow the base prompt, left to right
TrailingTokens(p) == Split(SubSeq(p, KeepEnd(p) + 1, Len(p)))

\* the canonical names of the tokens that resolve, left to right
RECURSIVE CanonicalNames(_, _)
CanonicalNames(tokens, config) ==
    IF tokens = <<>> THEN <<>>
    ELSE LET c == resolve_trigger(Tail(Head(tokens)), config,
                                  build_alias_map(config))
             rest == CanonicalNames(Tail(tokens), config)
         IN  IF c.some THEN <<c.s>> \o rest ELSE rest

\* q without the later repetitions of a name
FirstOccurrences(q) ==
    LET first == {i \in DOMAIN q : \A j \in 1..(i - 1) : q[j] # q[i]}
        F[i \in 0..Len(q)] ==
            IF i = 0 THEN <<>>
            ELSE IF i \in first THEN Append(F[i - 1], q[i]) ELSE F[i - 1]
    IN  F[Len(q)]

\* C11: the base prompt is the prompt up to the end of its rightmost token
\* that is not of the trigger shape ("+" and at least one more character),
\* verbatim; the trigger-shaped tokens after it are removed whether or not
\* they resolve.
C11_BaseIsPromptBeforeTrailingRun ==
    Printed => run.base = SubSeq(stdin.text, 1, KeepEnd(stdin.text))

\* a lone "+" stopped the scan behind a trigger-like token, and of the two
\* tokens removed after it one named a trigger and one did not
C11_Witness ==
    /\ Printed
    /\ \E k \in 1..(Len(run.base) - 1) :
           Candidate(SubSeq(run.base, 1, k)) /\ run.base[k + 1] \in Whitespace
    /\ run.base[Len(run.base)] = TRIGGER_PREFIX
    /\ Len(TrailingTokens(stdin.text)) = 2
    /\ Len(run.triggers) = 1

\* C12: the trigger list is the canonical names of the trailing trigger
\* tokens that resolve, directly or through an alias, left to right, each
\* name once at its first occurrence.
C12_TriggersAreResolvedNamesInOrder ==
    Printed =>
        run.triggers = FirstOccurrences(
                           CanonicalNames(TrailingTokens(stdin.text),
                                          run.config))

\* the parts with one blank line between each two of them
BlankLineJoined(parts) ==
    LET F[i \in 0..Len(parts)] ==
            IF i = 0 THEN <<>>
            ELSE IF i = 1 THEN parts[1]
            ELSE F[i - 1] \o <<"\n", "\n">> \o parts[i]
    IN  F[Len(parts)]

\* the parts of the output, in the order of the claim
OutputParts ==
    (IF run.base # <<>> THEN <<run.base>> ELSE <<>>)
        \o (IF Truthy(run.always) THEN <<run.always.s>> ELSE <<>>)
        \o run.modes
        \o run.frags

\* C13: the printed prompt is the base prompt (omitted when empty), the
\* always-on fragment, the session-mode fragments and the fragments of the
\* triggers in trigger order, with one blank line between consecutive
\* parts.
C13_OutputOrder ==
    Printed =>
        /\ run.stdout = BlankLineJoined(OutputParts) \o <<"\n">>
        /\ run.frags = get_fragments_for_triggers(run.triggers, run.config)
        /\ run.always = get_always_fragment(run.config)

\* all four kinds of part are present
C13_Witness ==
    /\ Printed
    /\ run.base # <<>>
    /\ Truthy(run.always)
    /\ run.modes # <<>>
    /\ run.frags # <<>>
    /\ run.frags # run.modes

\* the prompt hook has run
PromptRan == run.hook = "prompt-flag-appender"

\* stdin is not valid JSON, or its "prompt" is not a string
BadPromptInput ==
    \/ stdin.kind = "invalid"
    \/ stdin.kind = "json" /\ stdin.top = "dict" /\ stdin.ptype # "str"

\* the readable disabled-hooks file of the project has a line that is the
\* name, after trimming
Listed(name) ==
    /\ projectDir
    /\ disabledHooks.kind = "text"
    /\ \E i \in DOMAIN disabledHooks.lines :
           Strip(disabledHooks.lines[i]) = <<name>>

\* the hook reported an error: status 1, a message on stderr, no prompt
ReportedError == run.exit = 1 /\ run.stderr >= 1 /\ ~run.printed

\* C14 as stated: on invalid JSON or a prompt that is not a string the hook
\* exits 1 with a message on stderr and prints no prompt, and never exits 0.
C14_BadInputExitsOne ==
    PromptRan /\ BadPromptInput => ReportedError

\* C14, amended: the same, for a hook that its project has not disabled.
C14_BadInputExitsOneUnlessDisabled ==
    PromptRan /\ BadPromptInput /\ ~Listed("prompt-flag-appender")
        => ReportedError

\* an enabled hook read a payload whose prompt is a number and reported it
C14_Witness ==
    /\ PromptRan
    /\ stdin.ptype = "int"
    /\ ~Listed("prompt-flag-appender")
    /\ run.readStdin
    /\ ReportedError

\* the entries a configuration file contributes: none when it is absent or
\* cannot be parsed
EntriesOf(f) == IF f.kind = "toml" THEN f.doc ELSE <<>>

\* a dict as a function from its keys
AsMap(config) ==
    [k \in Keys(config) |-> config[IndexOf(config, k)].entry]

\* the system entries overlaid by whole project entries
Overlay(sys, proj) ==
    [k \in Keys(sys) \cup Keys(proj) |->
        IF k \in Keys(proj) THEN AsMap(proj)[k] ELSE AsMap(sys)[k]]

\* the hook got past exit_if_disabled()
Enabled(name) == ~Listed(name) /\ disabledHooks.kind # "undecodable"

\* C15: load_config returns the system entries overlaid by whole project
\* entries, a file that cannot be parsed counts as empty for its source,
\* and no such file is fatal.
C15_ConfigIsOverlayAndNeverFatal ==
    PromptRan /\ Enabled("prompt-flag-appender") =>
        /\ run.loaded
        /\ AsMap(run.config) =
               Overlay(EntriesOf(systemToml), EntriesOf(projectToml))

(***************************************************************************)
(* SpecHooks: the entry point of every hook.                               *)
(*                                                                         *)
(* What the checks of a hook conclude on a payload is an input here: they  *)
(* allow, they block, or an exception is raised while they run.            *)
(***************************************************************************)
HookNames ==
    {"changelog-reminder", "doc-update-check", "environment-awareness",
     "git-branch-protection", "git-commit-message-filter",
     "git-safety-check", "large-file-awareness", "large-file-guard",
     "prompt-flag-appender", "python-uv-enforcer", "release-check",
     "release-reminder", "rules-reminder", "serena_awareness"}

\* the hooks with a sys.exit(2)
BlockingHooks ==
    {"changelog-reminder", "doc-update-check", "git-branch-protection",
     "git-commit-message-filter", "git-safety-check", "large-file-guard",
     "python-uv-enforcer", "release-check"}

\* exit_if_disabled() is called inside the try block
DisableCheckInTry(h) == h = "serena_awareness"
\* main has no try block
NoTryBlock(h) == h = "git-commit-message-filter"
\* the except clauses end in sys.exit(1)
ExitsOneOnError(h) == h = "prompt-flag-appender"

\* what a hook process leaves behind
HookRun(h, code, stage) ==
    [hook |-> h, exit |-> code, stage |-> stage,
     stdout |-> FALSE, stderr |-> FALSE, readStdin |-> FALSE,
     checked |-> FALSE]

\* an exception reached the end of main's try block, or left main
OnException(h, stage, read) ==
    IF NoTryBlock(h) \/ (stage = "disable-check" /\ ~DisableCheckInTry(h))
    THEN [HookRun(h, 1, stage) EXCEPT !.stderr = TRUE, !.readStdin = read]
    ELSE IF ExitsOneOnError(h)
    THEN [HookRun(h, 1, stage) EXCEPT !.stderr = TRUE, !.readStdin = read]
    ELSE [HookRun(h, 0, stage) EXCEPT !.readStdin = read]

\* main of hook h, from exit_if_disabled() to the exit status
HookOutcome(h, pd, dis, in) ==
    LET disabled == is_hook_disabled(h, pd, dis)
    IN  IF disabled.kind = "raise" THEN OnException(h, "disable-check", FALSE)
        ELSE IF disabled.val THEN HookRun(h, 0, "disabled")
        ELSE IF in.kind = "invalid" THEN OnException(h, "parse", TRUE)
        ELSE CASE in.verdict = "raise" -> OnException(h, "checks", TRUE)
               [] in.verdict = "block" ->
                    [HookRun(h, 2, "checks") EXCEPT
                        !.stderr = TRUE, !.readStdin = TRUE, !.checked = TRUE]
               [] in.verdict = "print" ->
                    [HookRun(h, 0, "checks") EXCEPT
                        !.stdout = TRUE, !.readStdin = TRUE, !.checked = TRUE]
               [] OTHER ->
                    [HookRun(h, 0, "checks") EXCEPT
                        !.readStdin = TRUE, !.checked = TRUE]

HookEvent(v)     == [kind |-> "json", verdict |-> v]
InvalidPayload   == [kind |-> "invalid", verdict |-> "none"]
HookPayloads     == {InvalidPayload} \cup
                    {HookEvent(v) : v \in {"allow", "print", "block", "raise"}}

HookMain(h) ==
    /\ run = NoHookRun
    /\ (stdin.kind = "json" /\ stdin.verdict = "block") => h \in BlockingHooks
    /\ run' = HookOutcome(h, projectDir, disabledHooks, stdin)
    /\ UNCHANGED <<restVars, envVars, thr, guardVars, sessVars, projectDir,
                   disabledHooks, systemToml, projectToml, flagFiles, stdin,
                   changelog, skipEnv, git>>

InitHooks ==
    /\ RestIdle
    /\ envThreshold = Unset
    /\ home = TRUE
    /\ guardConfig = NoFileText
    /\ settingsJson = NoSettings
    /\ thr = NoCall
    /\ GuardIdle
    /\ SessionIdle
    /\ projectDir \in BOOLEAN
    /\ disabledHooks \in (IF projectDir
                          THEN UNION {DisabledFiles(h) : h \in HookNames}
                          ELSE {NoText})
    /\ systemToml = NoToml
    /\ projectToml = NoToml
    /\ flagFiles = <<>>
    /\ stdin \in HookPayloads
    /\ changelog = NoText
    /\ skipEnv = FALSE
    /\ git = NoPrograms
    /\ run = NoHookRun

NextHooks == \E h \in HookNames : HookMain(h)

SpecHooks == InitHooks /\ [][NextHooks]_vars

\* a hook has run
HookRan == run.hook \in HookNames

ExceptionRaised ==
    \/ run.stage = "disable-check"
    \/ run.stage = "parse"
    \/ run.stage = "checks" /\ stdin.verdict = "raise"

\* C17: every hook but prompt-flag-appender exits 0 when stdin is not
\* valid JSON or an unexpected exception is raised in it.
C17_FailOpen ==
    /\ HookRan
    /\ run.hook # "prompt-flag-appender"
    /\ stdin.kind = "invalid" \/ ExceptionRaised
    => run.exit = 0

(***************************************************************************)
(* SpecDocCheck: the hooks that run git or the classifier.                 *)
(*                                                                         *)
(* A command is the sequence of its whitespace-delimited words.  `git`     *)
(* says how each subprocess.run call ends: its status and what it printed. *)
(***************************************************************************)
\* how subprocess.run(["git", ...]) ends: FileNotFoundError, TimeoutExpired,
\* a non-zero return code, or return code 0
GitCall(g, call) == IF ~g.installed THEN "missing" ELSE g[call].status

\* get_current_branch() of doc-update-check and git-branch-protection
get_current_branch(g) ==
    IF GitCall(g, "branch") = "ok" THEN Some(g.branch.name) ELSE None

IsBranch(b, name) == b.some /\ b.s = name

\* re.match(r"^\s*gh\s+pr\s+merge\b", command)
GhPrMerge(cmd) ==
    Len(cmd) >= 3 /\ cmd[1] = "gh" /\ cmd[2] = "pr" /\ cmd[3] = "merge"
\* re.match(r"^\s*git\s+(\w+)", command) with subcommand "merge"
GitMerge(cmd) == Len(cmd) >= 2 /\ cmd[1] = "git" /\ cmd[2] = "merge"
\* re.search(r"checkout\s+main\s*(?:&&|;|$).*merge", command)
CheckoutMainThenMerge(cmd) ==
    \E i \in 1..(Len(cmd) - 3) :
        /\ cmd[i] = "checkout" /\ cmd[i + 1] = "main"
        /\ cmd[i + 2] \in {"&&", ";"}
        /\ \E j \in (i + 3)..Len(cmd) : cmd[j] = "merge"

is_merge_to_main_regex(cmd, g) ==
    \/ GhPrMerge(cmd)
    \/ GitMerge(cmd) /\ IsBranch(get_current_branch(g), "main")
    \/ CheckoutMainThenMerge(cmd)

\* is_merge_to_main_ai: the return code of the classifier is not looked at
is_merge_to_main_ai(c) ==
    IF c.status \in {"timeout", "missing"} THEN FALSE ELSE c.yes

\* the flag file .claude/hook-doc-check-ai-mode-on
DocCheckAiFlag == FlagFile(<<"doc-check-ai">>)
is_ai_mode_enabled(pd, flags) ==
    pd /\ \E i \in DOMAIN flags : flags[i] = DocCheckAiFlag

\* "merge" in command_lower or "gh" in command_lower
HasMergeKeyword(cmd) == \E i \in DOMAIN cmd : cmd[i] \in {"merge", "gh"}

is_merge_to_main(cmd, g, c, pd, flags) ==
    \/ is_merge_to_main_regex(cmd, g)
    \/ /\ is_ai_mode_enabled(pd, flags)
       /\ HasMergeKeyword(cmd)
       /\ is_merge_to_main_ai(c)

\* get_modified_docs() is a non-empty list; it is [] when git fails
get_modified_docs(g) == GitCall(g, "diff") = "ok" /\ g.diff.docs

\* re.search of an inline NAME=1 word
HasWord(cmd, w) == \E i \in DOMAIN cmd : cmd[i] = w

\* what a process of these hooks leaves behind, with the programs it ran
\* and the ones among them that failed
ToolRun(h, code, ran, g, c) ==
    [hook |-> h, exit |-> code, stderr |-> code = 2, ran |-> ran,
     failed |-> {x \in ran : IF x = "claude" THEN c.status # "ok"
                             ELSE GitCall(g, x) # "ok"}]

\* doc-update-check.py main
DocUpdateCheckOutcome(pd, dis, skip, in, g, c, flags) ==
    LET h == "doc-update-check"
        disabled == is_hook_disabled(h, pd, dis)
        cmd == in.command
        regex == is_merge_to_main_regex(cmd, g)
        ai == ~regex /\ is_ai_mode_enabled(pd, flags) /\ HasMergeKeyword(cmd)
        r1 == (IF ~GhPrMerge(cmd) /\ GitMerge(cmd) THEN {"branch"} ELSE {})
                  \cup (IF ai THEN {"claude"} ELSE {})
        modified_docs == get_modified_docs(g)
    IN  IF disabled.kind = "raise" THEN ToolRun(h, 1, {}, g, c)
        ELSE IF disabled.val \/ skip \/ in.kind # "json" \/ in.tool # "Bash"
        THEN ToolRun(h, 0, {}, g, c)
        ELSE IF HasWord(cmd, "SKIP_DOC_CHECK=1") THEN ToolRun(h, 0, {}, g, c)
        ELSE IF ~is_merge_to_main(cmd, g, c, pd, flags)
        THEN ToolRun(h, 0, r1, g, c)
        ELSE IF modified_docs
        THEN ToolRun(h, 0, r1 \cup {"branch", "diff"}, g, c)
        ELSE ToolRun(h, 2, r1 \cup {"branch", "diff"}, g, c)

\* re.search(r"\bgit\s+commit\b", command)
is_git_commit_command(cmd) ==
    \E i \in 1..(Len(cmd) - 1) : cmd[i] = "git" /\ cmd[i + 1] = "commit"

\* get_staged_files(): [] when git fails
get_staged_files(g) ==
    IF GitCall(g, "staged") = "ok" THEN g.staged.files ELSE {}

\* A staged path is its directories and the parts of its file name: the
\* stem and each suffix, as in <<"CHANGELOG", ".md">>.
Path(dirs, name) == [dirs |-> dirs, name |-> name]
InDir(path, d) == \E i \in DOMAIN path.dirs : path.dirs[i] = d
LastPart(path) == path.name[Len(path.name)]

\* is_meaningful_file(file_path)
is_meaningful_file(path) ==
    IF InDir(path, "tests") THEN FALSE
    ELSE IF InDir(path, ".github") THEN FALSE
    ELSE IF InDir(path, "__pycache__") \/ LastPart(path) = ".pyc" THEN FALSE
    ELSE IF path.name = <<".gitignore">> THEN FALSE
    ELSE IF path.name = <<"conftest", ".py">> THEN FALSE
    ELSE IF InDir(path, ".claude") THEN FALSE
    ELSE IF Lower(LastPart(path)) = ".md" THEN FALSE
    ELSE TRUE

\* "CHANGELOG.md" in f
HoldsChangelogName(path) ==
    \E i \in 1..(Len(path.name) - 1) :
        path.name[i] = "CHANGELOG" /\ path.name[i + 1] = ".md"

\* is_changelog_staged(staged_files)
is_changelog_staged(staged_files) ==
    \E f \in staged_files : HoldsChangelogName(f)

\* changelog-reminder.py main that looks for CHANGELOG.md among the
\* meaningful files only
ChangelogReminderOutcome_AmongMeaningful(pd, dis, skip, in, g, c) ==
    LET h == "changelog-reminder"
        disabled == is_hook_disabled(h, pd, dis)
        cmd == in.command
        staged_files == get_staged_files(g)
        meaningful_files == {f \in staged_files : is_meaningful_file(f)}
    IN  IF disabled.kind = "raise" THEN ToolRun(h, 1, {}, g, c)
        ELSE IF disabled.val \/ skip \/ in.kind # "json" \/ in.tool # "Bash"
        THEN ToolRun(h, 0, {}, g, c)
        ELSE IF HasWord(cmd, "SKIP_CHANGELOG_CHECK=1")
        THEN ToolRun(h, 0, {}, g, c)
        ELSE IF ~is_git_commit_command(cmd) THEN ToolRun(h, 0, {}, g, c)
        ELSE IF meaningful_files = {} THEN ToolRun(h, 0, {"staged"}, g, c)
        ELSE IF is_changelog_staged(meaningful_files)
        THEN ToolRun(h, 0, {"staged"}, g, c)
        ELSE ToolRun(h, 2, {"staged"}, g, c)

\* changelog-reminder.py main
ChangelogReminderOutcome(pd, dis, skip, in, g, c) ==
    LET h == "changelog-reminder"
        disabled == is_hook_disabled(h, pd, dis)
        cmd == in.command
        staged_files == get_staged_files(g)
        meaningful_files == {f \in staged_files : is_meaningful_file(f)}
    IN  IF disabled.kind = "raise" THEN ToolRun(h, 1, {}, g, c)
        ELSE IF disabled.val \/ skip \/ in.kind # "json" \/ in.tool # "Bash"
        THEN ToolRun(h, 0, {}, g, c)
        ELSE IF HasWord(cmd, "SKIP_CHANGELOG_CHECK=1")
        THEN ToolRun(h, 0, {}, g, c)
        ELSE IF ~is_git_commit_command(cmd) THEN ToolRun(h, 0, {}, g, c)
        ELSE IF meaningful_files = {} THEN ToolRun(h, 0, {"staged"}, g, c)
        ELSE IF is_changelog_staged(staged_files)
        THEN ToolRun(h, 0, {"staged"}, g, c)
        ELSE ToolRun(h, 2, {"staged"}, g, c)

PROTECTED_BRANCHES == {"main", "master", "production", "prod"}

SAFE_REDIRECT_TARGETS == {"/dev/null", "/dev/stdout", "/dev/stderr"}

\* the words of a command that hold the redirect operator ">"
RedirectWords == {">", ">>", "2>"}
\* the word after position i, "" at the end of the command
WordAfter(cmd, i) == IF i < Len(cmd) THEN cmd[i + 1] ELSE ""
\* re.search(r"sed\s+-i(?:\.\w+)?", command); same for perl
InPlace(cmd, prog) ==
    \E i \in 1..(Len(cmd) - 1) : cmd[i] = prog /\ cmd[i + 1] = "-i"
\* the places where r">\s*(?!\s*/dev/(?:null|stdout|stderr))" matches: the
\* first ">" of ">>", or a ">" whose next word is not a safe target
RedirectAt(cmd) ==
    {i \in DOMAIN cmd :
        /\ cmd[i] \in RedirectWords
        /\ cmd[i] = ">>" \/ WordAfter(cmd, i) \notin SAFE_REDIRECT_TARGETS}
\* re.search(r">\s*" + re.escape(safe_target), remaining)
SafeRedirectFrom(cmd, i) ==
    \E j \in i..Len(cmd) :
        cmd[j] \in RedirectWords /\ WordAfter(cmd, j) \in SAFE_REDIRECT_TARGETS
\* re.search(r"\btee\s+", command) and the first word after it
TeeAt(cmd) == {i \in 1..(Len(cmd) - 1) : cmd[i] = "tee"}
\* re.search(r"<<\w+.*?>", command, re.DOTALL)
HeredocAt(cmd) ==
    {i \in DOMAIN cmd :
        /\ cmd[i] = "<<EOF"
        /\ \E j \in (i + 1)..Len(cmd) : cmd[j] \in RedirectWords}
SafeTargetFrom(cmd, i) ==
    \E j \in i..Len(cmd) : cmd[j] \in SAFE_REDIRECT_TARGETS

\* detect_file_write_patterns(command): the names of the patterns found
detect_file_write_patterns(cmd) ==
    LET first(S) == CHOOSE i \in S : \A j \in S : i <= j
        sed == IF InPlace(cmd, "sed") THEN <<"sed -i">> ELSE <<>>
        perl == IF InPlace(cmd, "perl") THEN <<"perl -i">> ELSE <<>>
        redirect ==
            IF RedirectAt(cmd) = {} THEN <<>>
            ELSE LET m == first(RedirectAt(cmd))
                 IN  IF SafeRedirectFrom(cmd, m) THEN <<>>
                     ELSE IF cmd[m] = ">>" THEN <<"redirect >>">>
                     ELSE <<"redirect >">>
        tee ==
            IF TeeAt(cmd) = {} THEN <<>>
            ELSE LET m == first(TeeAt(cmd))
                 IN  IF cmd[m + 1] \in SAFE_REDIRECT_TARGETS THEN <<>>
                     ELSE <<"tee">>
        heredoc ==
            IF HeredocAt(cmd) = {} THEN <<>>
            ELSE IF SafeTargetFrom(cmd, first(HeredocAt(cmd))) THEN <<>>
            ELSE <<"heredoc redirect">>
    IN  IF cmd = <<>> THEN <<>>
        ELSE sed \o perl \o redirect \o tee \o heredoc

\* git-branch-protection.py main that blocks a Bash command with a
\* file-writing pattern
BranchProtectionOutcome_BlockBash(pd, dis, in, g, c) ==
    LET h == "git-branch-protection"
        disabled == is_hook_disabled(h, pd, dis)
        current_branch == get_current_branch(g)
    IN  IF disabled.kind = "raise" THEN ToolRun(h, 1, {}, g, c)
        ELSE IF disabled.val \/ in.kind # "json" THEN ToolRun(h, 0, {}, g, c)
        ELSE IF ~current_branch.some THEN ToolRun(h, 0, {"branch"}, g, c)
        ELSE IF current_branch.s \notin PROTECTED_BRANCHES
        THEN ToolRun(h, 0, {"branch"}, g, c)
        ELSE IF in.tool \in {"Edit", "Write"}
        THEN ToolRun(h, 2, {"branch"}, g, c)
        ELSE IF in.tool = "Bash" /\ detect_file_write_patterns(in.command) # <<>>
        THEN ToolRun(h, 2, {"branch"}, g, c)
        ELSE ToolRun(h, 0, {"branch"}, g, c)

\* git-branch-protection.py main
BranchProtectionOutcome(pd, dis, in, g, c) ==
    LET h == "git-branch-protection"
        disabled == is_hook_disabled(h, pd, dis)
        current_branch == get_current_branch(g)
    IN  IF disabled.kind = "raise" THEN ToolRun(h, 1, {}, g, c)
        ELSE IF disabled.val \/ in.kind # "json" THEN ToolRun(h, 0, {}, g, c)
        ELSE IF ~current_branch.some THEN ToolRun(h, 0, {"branch"}, g, c)
        ELSE IF current_branch.s \notin PROTECTED_BRANCHES
        THEN ToolRun(h, 0, {"branch"}, g, c)
        ELSE IF in.tool \in {"Edit", "Write"}
        THEN ToolRun(h, 2, {"branch"}, g, c)
        ELSE IF in.tool = "Bash" /\ detect_file_write_patterns(in.command) # <<>>
        THEN [ToolRun(h, 0, {"branch"}, g, c) EXCEPT !.stderr = TRUE]
        ELSE ToolRun(h, 0, {"branch"}, g, c)

ToolEvent(tool, cmd) == [kind |-> "json", tool |-> tool, command |-> cmd]
InvalidToolEvent == [kind |-> "invalid", tool |-> "none", command |-> <<>>]

GitCommands ==
    {<<"gh", "pr", "merge", "1">>,
     <<"git", "merge", "feature">>,
     <<"git", "checkout", "main", "&&", "git", "merge", "feature">>,
     <<"cd", "repo", "&&", "git", "merge", "feature">>,
     <<"SKIP_DOC_CHECK=1", "gh", "pr", "merge", "1">>,
     <<"git", "commit", "-m", "fix">>,
     <<"SKIP_CHANGELOG_CHECK=1", "git", "commit", "-m", "fix">>,
     <<"git", "status">>}
ToolEvents ==
    {InvalidToolEvent}
        \cup {ToolEvent("Bash", cmd) : cmd \in GitCommands}
        \cup {ToolEvent("Edit", <<>>)}

TestPy == Path(<<"tests">>, <<"test_a", ".py">>)
SrcPy == Path(<<"src">>, <<"a", ".py">>)
ChangelogMd == Path(<<>>, <<"CHANGELOG", ".md">>)

\* the states of git: not installed, or each call with its own ending
GitStates ==
    {[installed |-> FALSE,
      branch |-> [status |-> "ok", name |-> "main"],
      diff |-> [status |-> "ok", docs |-> FALSE],
      staged |-> [status |-> "ok", files |-> {}]]}
    \cup
    [installed : {TRUE},
     branch : [status : {"ok"}, name : {"main", "feature"}]
                  \cup [status : {"nonzero", "timeout"}, name : {"main"}],
     diff : [status : {"ok"}, docs : BOOLEAN]
                \cup [status : {"nonzero", "timeout"}, docs : {FALSE}],
     staged : [status : {"ok"},
               files : {{}, {TestPy}, {SrcPy}, {SrcPy, ChangelogMd}}]
                  \cup [status : {"nonzero", "timeout"}, files : {{}}]]
ClaudeStates ==
    [status : {"ok", "nonzero"}, yes : BOOLEAN]
        \cup [status : {"timeout", "missing"}, yes : {FALSE}]
ProgramStates == [git : GitStates, claude : ClaudeStates]

DocUpdateCheckMain ==
    /\ run = NoHookRun
    /\ run' = DocUpdateCheckOutcome(projectDir, disabledHooks, skipEnv, stdin,
                                    git.git, git.claude, flagFiles)
    /\ UNCHANGED <<restVars, envVars, thr, guardVars, sessVars, projectDir,
                   disabledHooks, systemToml, projectToml, flagFiles, stdin,
                   changelog, skipEnv, git>>

ChangelogReminderMain ==
    /\ run = NoHookRun
    /\ run' = ChangelogReminderOutcome(projectDir, disabledHooks, skipEnv,
                                       stdin, git.git, git.claude)
    /\ UNCHANGED <<restVars, envVars, thr, guardVars, sessVars, projectDir,
                   disabledHooks, systemToml, projectToml, flagFiles, stdin,
                   changelog, skipEnv, git>>

GitBranchProtectionMain ==
    /\ run = NoHookRun
    /\ run' = BranchProtectionOutcome(projectDir, disabledHooks, stdin,
                                      git.git, git.claude)
    /\ UNCHANGED <<restVars, envVars, thr, guardVars, sessVars, projectDir,
                   disabledHooks, systemToml, projectToml, flagFiles, stdin,
                   changelog, skipEnv, git>>

InitDocCheck ==
    /\ RestIdle
    /\ envThreshold = Unset
    /\ home = TRUE
    /\ guardConfig = NoFileText
    /\ settingsJson = NoSettings
    /\ thr = NoCall
    /\ GuardIdle
    /\ SessionIdle
    /\ projectDir = TRUE
    /\ disabledHooks = NoText
    /\ systemToml = NoToml
    /\ projectToml = NoToml
    /\ flagFiles \in {<<>>, <<DocCheckAiFlag>>}
    /\ stdin \in ToolEvents
    /\ changelog = NoText
    /\ skipEnv \in BOOLEAN
    /\ git \in ProgramStates
    /\ run = NoHookRun

NextDocCheck ==
    \/ DocUpdateCheckMain
    \/ ChangelogReminderMain
    \/ GitBranchProtectionMain

SpecDocCheck == InitDocCheck /\ [][NextDocCheck]_vars

\* one of the hooks that run an external program has run
ToolHookRan ==
    run.hook \in {"doc-update-check", "changelog-reminder",
                  "git-branch-protection"}

\* C18: a hook whose external programs are missing, time out or return
\* non-zero does not block for that reason: when every program the run
\* started failed, the hook exits 0.
C18_ProgramFailureNeverBlocks ==
    ToolHookRan /\ run.ran # {} /\ run.failed = run.ran => run.exit = 0

(***************************************************************************)
(* SpecRelease: the release-check hook on single and chained commands.     *)
(***************************************************************************)
\* most simple commands chained with "&&" in one Bash command
MaxSegments == 2

\* v(\d+\.\d+\.\d+) at the start of a word
VersionOf(tok) ==
    CASE tok = "v1.2.3" -> Some("1.2.3")
      [] tok = "v2.0.0" -> Some("2.0.0")
      [] OTHER          -> None

\* -[a-z] as a whole word
ShortFlag(tok) == tok \in {"-a", "-s", "-f"}

\* where r"git\s+tag\s+(?:-[a-z]\s+)?v(\d+\.\d+\.\d+)" matches, by the
\* index of "git", with the version word behind it
TagMatches(cmd) ==
    {i \in 1..(Len(cmd) - 2) :
        /\ cmd[i] = "git" /\ cmd[i + 1] = "tag"
        /\ \/ VersionOf(cmd[i + 2]).some
           \/ /\ i + 3 <= Len(cmd)
              /\ ShortFlag(cmd[i + 2])
              /\ VersionOf(cmd[i + 3]).some}

Leftmost(S) == CHOOSE i \in S : \A j \in S : i <= j

extract_tag_version(cmd) ==
    IF TagMatches(cmd) = {} THEN None
    ELSE LET i == Leftmost(TagMatches(cmd))
         IN  IF VersionOf(cmd[i + 2]).some THEN VersionOf(cmd[i + 2])
             ELSE VersionOf(cmd[i + 3])

\* where r"gh\s+release\s+create\s+v(\d+\.\d+\.\d+)" matches
ReleaseMatches(cmd) ==
    {i \in 1..(Len(cmd) - 3) :
        /\ cmd[i] = "gh" /\ cmd[i + 1] = "release" /\ cmd[i + 2] = "create"
        /\ VersionOf(cmd[i + 3]).some}

extract_release_version(cmd) ==
    IF ReleaseMatches(cmd) = {} THEN None
    ELSE VersionOf(cmd[Leftmost(ReleaseMatches(cmd)) + 3])

\* check_version_in_changelog(version): True, False, or the exception of a
\* read that only catches OSError
check_version_in_changelog(version, f) ==
    CASE f.kind = "absent"      -> Return(TRUE)
      [] f.kind = "unreadable"  -> Return(TRUE)
      [] f.kind = "undecodable" -> Raise("UnicodeDecodeError")
      [] OTHER -> Return(\E i \in DOMAIN f.lines :
                             \E k \in DOMAIN f.lines[i] :
                                 f.lines[i][k] = version)

\* what a release-check process leaves behind
ReleaseRun(code, stage) ==
    [hook |-> "release-check", exit |-> code, stage |-> stage,
     stderr |-> code = 2]

\* release-check.py main
ReleaseCheckOutcome(pd, dis, skip, in, f) ==
    LET disabled == is_hook_disabled("release-check", pd, dis)
        command == in.command
        tag_version == extract_tag_version(command)
        release_version == extract_release_version(command)
        in_changelog == check_version_in_changelog(tag_version.s, f)
    IN  IF disabled.kind = "raise" THEN ReleaseRun(1, "disable-check")
        ELSE IF disabled.val THEN ReleaseRun(0, "disabled")
        ELSE IF skip THEN ReleaseRun(0, "skip")
        ELSE IF in.kind # "json" THEN ReleaseRun(0, "parse")
        ELSE IF in.tool # "Bash" THEN ReleaseRun(0, "tool")
        ELSE IF HasWord(command, "SKIP_RELEASE_CHECK=1")
        THEN ReleaseRun(0, "skip")
        ELSE IF tag_version.some
        THEN IF in_changelog.kind = "raise"
             THEN ReleaseRun(0, "exception")        \* except Exception
             ELSE IF HasWord(command, "CONFIRM_TAG=1")
             THEN IF ~in_changelog.val THEN ReleaseRun(2, "tag-changelog")
                  ELSE ReleaseRun(0, "tag-confirmed")
             ELSE IF ~in_changelog.val THEN ReleaseRun(2, "tag-changelog")
             ELSE ReleaseRun(2, "tag-confirm")
        ELSE IF release_version.some
        THEN IF HasWord(command, "CONFIRM_RELEASE=1")
             THEN ReleaseRun(0, "release-confirmed")
             ELSE ReleaseRun(2, "release-confirm")
        ELSE ReleaseRun(0, "other")

\* the simple commands, and the NAME=1 words put ahead of a command
Segments ==
    {<<"git", "tag", "v1.2.3">>,
     <<"git", "tag", "-a", "v1.2.3">>,
     <<"git", "tag", "--force", "v1.2.3">>,
     <<"git", "tag">>,
     <<"gh", "release", "create", "v1.2.3">>,
     <<"gh", "release", "list">>}
Prefixes ==
    {<<>>, <<"CONFIRM_TAG=1">>, <<"CONFIRM_RELEASE=1">>,
     <<"SKIP_RELEASE_CHECK=1">>, <<"CONFIRM_TAG=1", "CONFIRM_RELEASE=1">>}

RECURSIVE Chain(_)
Chain(segs) ==
    IF Len(segs) = 1 THEN Head(segs)
    ELSE Head(segs) \o <<"&&">> \o Chain(Tail(segs))

ReleaseCommands ==
    {pre \o Chain(segs) :
        pre \in Prefixes,
        segs \in UNION {[1..n -> Segments] : n \in 1..MaxSegments}}

Changelogs ==
    {NoText,
     [kind |-> "unreadable", lines |-> <<>>],
     [kind |-> "undecodable", lines |-> <<>>],
     [kind |-> "text", lines |-> <<<<"##", " ", "1.2.3", "\n">>>>],
     [kind |-> "text", lines |-> <<<<"##", " ", "2.0.0", "\n">>>>]}

ReleaseCheckMain ==
    /\ run = NoHookRun
    /\ run' = ReleaseCheckOutcome(projectDir, disabledHooks, skipEnv, stdin,
                                  changelog)
    /\ UNCHANGED <<restVars, envVars, thr, guardVars, sessVars, projectDir,
                   disabledHooks, systemToml, projectToml, flagFiles, stdin,
                   changelog, skipEnv, git>>

InitRelease ==
    /\ RestIdle
    /\ envThreshold = Unset
    /\ home = TRUE
    /\ guardConfig = NoFileText
    /\ settingsJson = NoSettings
    /\ thr = NoCall
    /\ GuardIdle
    /\ SessionIdle
    /\ projectDir = TRUE
    /\ disabledHooks \in {NoText,
                          [kind |-> "text",
                           lines |-> <<HookLine("release-check")>>]}
    /\ systemToml = NoToml
    /\ projectToml = NoToml
    /\ flagFiles = <<>>
    /\ stdin \in {InvalidToolEvent, ToolEvent("Edit", <<>>)}
                 \cup {ToolEvent("Bash", cmd) : cmd \in ReleaseCommands}
    /\ changelog \in Changelogs
    /\ skipEnv \in BOOLEAN
    /\ git = NoPrograms
    /\ run = NoHookRun

NextRelease == ReleaseCheckMain

SpecRelease == InitRelease /\ [][NextRelease]_vars

\* an enabled release-check has run on a Bash command, and no skip flag is
\* set in the environment or in the command
ReleaseChecked ==
    /\ run.hook = "release-check"
    /\ Enabled("release-check")
    /\ stdin.kind = "json" /\ stdin.tool = "Bash"
    /\ ~skipEnv
    /\ ~HasWord(stdin.command, "SKIP_RELEASE_CHECK=1")

\* CHANGELOG.md is absent, cannot be read, or contains the version
ChangelogPasses(version) ==
    \/ changelog.kind \in {"absent", "unreadable", "undecodable"}
    \/ \E i \in DOMAIN changelog.lines :
           \E k \in DOMAIN changelog.lines[i] :
               changelog.lines[i][k] = version

\* C19: an enabled release-check does not exit 0 on a command that matches
\* git tag [-x] vX.Y.Z unless the command holds CONFIRM_TAG=1 (or a skip
\* flag is set); with CONFIRM_TAG=1 it exits 0 when CHANGELOG.md is absent,
\* unreadable or contains the version, and exits 2 otherwise.
C19_TagNeedsConfirmationAndChangelog ==
    ReleaseChecked /\ extract_tag_version(stdin.command).some =>
        IF HasWord(stdin.command, "CONFIRM_TAG=1")
        THEN IF ChangelogPasses(extract_tag_version(stdin.command).s)
             THEN run.exit = 0 ELSE run.exit = 2
        ELSE run.exit # 0

\* C20: an enabled release-check exits 2 on every command, single or
\* chained, that holds gh release create vX.Y.Z without CONFIRM_RELEASE=1
\* (and without a skip flag); stated where CHANGELOG.md, if present, can be
\* decoded.
C20_ReleaseNeedsConfirmation ==
    /\ ReleaseChecked
    /\ changelog.kind # "undecodable"
    /\ ReleaseMatches(stdin.command) # {}
    /\ ~HasWord(stdin.command, "CONFIRM_RELEASE=1")
    => run.exit = 2

(***************************************************************************)
(* SpecBranch: git-branch-protection on every tool and branch.             *)
(***************************************************************************)
BranchCommands ==
    {<<>>,
     <<"ls">>,
     <<"sed", "-i", "s/a/b/", "f">>,
     <<"perl", "-i", "-pe", "s/a/b/", "f">>,
     <<"echo", "x", ">", "f">>,
     <<"echo", "x", ">>", "f">>,
     <<"echo", "x", ">", "/dev/null">>,
     <<"echo", "x", ">", "f", "2>", "/dev/null">>,
     <<"echo", "x", "|", "tee", "f">>,
     <<"echo", "x", "|", "tee", "/dev/null">>,
     <<"cat", "<<EOF", ">", "f">>}
BranchEvents ==
    {InvalidToolEvent}
        \cup {ToolEvent("Bash", cmd) : cmd \in BranchCommands}
        \cup {ToolEvent(t, <<>>) : t \in {"Edit", "Write", "Read"}}

\* what `git branch --show-current` prints: a branch name, or nothing on a
\* detached HEAD
BranchNames ==
    {"main", "master", "production", "prod", "feature", "Main", ""}
BranchGitStates ==
    {[installed |-> FALSE,
      branch |-> [status |-> "ok", name |-> "main"],
      diff |-> [status |-> "ok", docs |-> FALSE],
      staged |-> [status |-> "ok", files |-> {}]]}
    \cup
    [installed : {TRUE},
     branch : [status : {"ok"}, name : BranchNames]
                  \cup [status : {"nonzero", "timeout"}, name : {"main"}],
     diff : {[status |-> "ok", docs |-> FALSE]},
     staged : {[status |-> "ok", files |-> {}]}]

InitBranch ==
    /\ RestIdle
    /\ envThreshold = Unset
    /\ home = TRUE
    /\ guardConfig = NoFileText
    /\ settingsJson = NoSettings
    /\ thr = NoCall
    /\ GuardIdle
    /\ SessionIdle
    /\ projectDir \in BOOLEAN
    /\ disabledHooks \in DisabledFiles("git-branch-protection")
    /\ systemToml = NoToml
    /\ projectToml = NoToml
    /\ flagFiles = <<>>
    /\ stdin \in BranchEvents
    /\ changelog = NoText
    /\ skipEnv = FALSE
    /\ git \in [git : BranchGitStates,
                claude : {[status |-> "ok", yes |-> FALSE]}]
    /\ run = NoHookRun

NextBranch == GitBranchProtectionMain

SpecBranch == InitBranch /\ [][NextBranch]_vars

\* an enabled git-branch-protection has run on a tool event
BranchChecked ==
    /\ run.hook = "git-branch-protection"
    /\ Enabled("git-branch-protection")
    /\ stdin.kind = "json"

\* `git branch --show-current` named one of the four protected branches
OnProtectedBranch ==
    /\ git.git.installed
    /\ git.git.branch.status = "ok"
    /\ git.git.branch.name \in {"main", "master", "production", "prod"}

StagedPaths ==
    {TestPy, SrcPy, ChangelogMd,
     Path(<<"docs">>, <<"CHANGELOG", ".md">>),
     Path(<<"src">>, <<"CHANGELOG", ".md", ".py">>),
     Path(<<>>, <<"changelog", ".md">>),
     Path(<<>>, <<"NOTES", ".MD">>),
     Path(<<>>, <<".gitignore">>),
     Path(<<"src">>, <<"conftest", ".py">>),
     Path(<<"src", "__pycache__">>, <<"a", ".pyc">>),
     Path(<<".github", "workflows">>, <<"ci", ".yml">>),
     Path(<<".claude">>, <<"settings", ".json">>),
     Path(<<>>, <<"Makefile">>)}
\* at most two paths staged at once
StagedSets == {S \in SUBSET StagedPaths : Cardinality(S) <= 2}

ChangelogCommands ==
    {<<"git", "commit", "-m", "fix">>,
     <<"git", "add", ".", "&&", "git", "commit", "-m", "fix">>,
     <<"SKIP_CHANGELOG_CHECK=1", "git", "commit", "-m", "fix">>,
     <<"git", "commit", "-m", "SKIP_CHANGELOG_CHECK=1">>,
     <<"git", "status">>,
     <<"git", "log", "--grep", "commit">>,
     <<>>}
ChangelogEvents ==
    {InvalidToolEvent, ToolEvent("Edit", <<>>)}
        \cup {ToolEvent("Bash", cmd) : cmd \in ChangelogCommands}

ChangelogGitStates ==
    {[installed |-> FALSE,
      branch |-> [status |-> "ok", name |-> "main"],
      diff |-> [status |-> "ok", docs |-> FALSE],
      staged |-> [status |-> "ok", files |-> {}]]}
    \cup
    [installed : {TRUE},
     branch : {[status |-> "ok", name |-> "main"]},
     diff : {[status |-> "ok", docs |-> FALSE]},
     staged : [status : {"ok"}, files : StagedSets]
                  \cup [status : {"nonzero", "timeout"}, files : {{}}]]

InitChangelog ==
    /\ RestIdle
    /\ envThreshold = Unset
    /\ home = TRUE
    /\ guardConfig = NoFileText
    /\ settingsJson = NoSettings
    /\ thr = NoCall
    /\ GuardIdle
    /\ SessionIdle
    /\ projectDir = TRUE
    /\ disabledHooks \in DisabledFiles("changelog-reminder")
    /\ systemToml = NoToml
    /\ projectToml = NoToml
    /\ flagFiles = <<>>
    /\ stdin \in ChangelogEvents
    /\ changelog = NoText
    /\ skipEnv \in BOOLEAN
    /\ git \in [git : ChangelogGitStates,
                claude : {[status |-> "ok", yes |-> FALSE]}]
    /\ run = NoHookRun

NextChangelog == ChangelogReminderMain

SpecChangelog == InitChangelog /\ [][NextChangelog]_vars

\* the event is a Bash command that matches "git commit"
CommitEvent ==
    /\ stdin.kind = "json" /\ stdin.tool = "Bash"
    /\ \E i \in 1..(Len(stdin.command) - 1) :
           stdin.command[i] = "git" /\ stdin.command[i + 1] = "commit"

\* SKIP_CHANGELOG_CHECK=1 is in the environment or in the command text
SkipChangelogFlag ==
    \/ skipEnv
    \/ \E i \in DOMAIN stdin.command :
           stdin.command[i] = "SKIP_CHANGELOG_CHECK=1"

\* the paths `git diff --cached --name-only` listed
Staged == git.git.staged.files

MaxFiles == 12
\* large_files[:10]
TopCount == 10

ScanFile(ext, exists, lines) == [ext |-> ext, exists |-> exists, lines |-> lines]
Entry(path, lines, type) == [path |-> path, lines |-> lines, type |-> type]

\* the body of the for loop of analyze_files: the entries of files[i..]
\* that are kept, in list order
RECURSIVE Analyzed(_, _, _)
Analyzed(files, i, threshold) ==
    IF i > Len(files) THEN <<>>
    ELSE LET f == files[i]
             file_type == classify_file(f.ext)
             rest == Analyzed(files, i + 1, threshold)
         IN  IF ~f.exists THEN rest
             ELSE IF file_type = "binary" THEN rest
             ELSE IF f.lines < threshold THEN rest
             ELSE <<Entry(i, f.lines, file_type)>> \o rest

\* list.sort(key=lambda x: x["lines"], reverse=True): stable, so entries
\* with equal line counts keep their order
RECURSIVE InsertDesc(_, _)
InsertDesc(sorted, e) ==
    IF sorted = <<>> THEN <<e>>
    ELSE IF Head(sorted).lines >= e.lines
    THEN <<Head(sorted)>> \o InsertDesc(Tail(sorted), e)
    ELSE <<e>> \o sorted
RECURSIVE SortDesc(_, _)
SortDesc(q, sorted) ==
    IF q = <<>> THEN sorted
    ELSE SortDesc(Tail(q), InsertDesc(sorted, Head(q)))

\* a sort that leaves the list in scan order
analyze_files_Unsorted(files, threshold) == Analyzed(files, 1, threshold)

\* analyze_files(files), given the threshold it resolved
analyze_files(files, threshold) ==
    SortDesc(Analyzed(files, 1, threshold), <<>>)

\* print_awareness(large_files): the file lines printed and the number in
\* the "(+N more files ...)" line, if that line is printed
print_awareness(large_files) ==
    [shown |-> SubSeq(large_files, 1,
                      IF Len(large_files) < TopCount THEN Len(large_files)
                      ELSE TopCount),
     remainder |-> IF Len(large_files) > TopCount
                   THEN Some(Len(large_files) - TopCount) ELSE None]

ScanRun(analyzed, threshold, large_files, out) ==
    [hook |-> "large-file-awareness", exit |-> 0, analyzed |-> analyzed,
     threshold |-> threshold, large_files |-> large_files,
     printed |-> large_files # <<>>, shown |-> out.shown,
     remainder |-> out.remainder]
Silent == [shown |-> <<>>, remainder |-> None]

\* large-file-awareness.py main
AwarenessOutcome(pd, dis, in, files, env, h, sj) ==
    LET disabled == is_hook_disabled("large-file-awareness", pd, dis)
        threshold == get_large_file_threshold(env, h, sj)
        large_files == analyze_files(files, threshold.val)
    IN  IF disabled.kind = "raise"
        THEN [ScanRun(FALSE, 0, <<>>, Silent) EXCEPT !.exit = 1]
        ELSE IF disabled.val \/ in.kind # "json" \/ in.event # "SessionStart"
        THEN ScanRun(FALSE, 0, <<>>, Silent)
        ELSE IF threshold.kind = "raise" THEN ScanRun(FALSE, 0, <<>>, Silent)
        ELSE IF large_files = <<>>
        THEN ScanRun(TRUE, threshold.val, <<>>, Silent)
        ELSE ScanRun(TRUE, threshold.val, large_files,
                     print_awareness(large_files))

LargeFileAwarenessMain ==
    /\ run = NoHookRun
    /\ run' = AwarenessOutcome(projectDir, disabledHooks, stdin, projectFiles,
                               envThreshold, home, settingsJson)
    /\ UNCHANGED <<envVars, thr, guardVars, sessVars, projectDir,
                   disabledHooks, systemToml, projectToml, flagFiles, stdin,
                   changelog, skipEnv, git, restVars>>

SessionEvent(name) == [kind |-> "json", event |-> name]
ScanEvents ==
    {[kind |-> "invalid", event |-> "none"], SessionEvent("SessionStart"),
     SessionEvent("UserPromptSubmit")}

\* line counts around the thresholds 0 and 7
ScanLines == {0, 1, 6, 7, 8}
ScanFiles ==
    {ScanFile(e, x, n) : e \in {".py", ".PNG", ".json"}, x \in BOOLEAN,
                         n \in ScanLines}
\* every list of at most two files
ShortLists == UNION {[1..n -> ScanFiles] : n \in 0..2}
\* lists of more than nine source files whose line counts cycle through
\* 6..9 with stride k
LongLists ==
    {[i \in 1..n |-> ScanFile(".py", TRUE, 6 + ((i * k) % 4))] :
        n \in (TopCount - 1)..MaxFiles, k \in 1..3}

InitScan ==
    /\ envThreshold \in {Unset, EnvText(<<"7">>), EnvText(<<"0">>)}
    /\ home = TRUE
    /\ guardConfig = NoFileText
    /\ settingsJson \in {NoSettings,
                         [kind |-> "doc", doc |-> Doc("object", TRUE, JList)]}
    /\ thr = NoCall
    /\ GuardIdle
    /\ SessionIdle
    /\ projectDir = TRUE
    /\ disabledHooks \in {NoText,
                          [kind |-> "text",
                           lines |-> <<HookLine("large-file-awareness")>>]}
    /\ systemToml = NoToml
    /\ projectToml = NoToml
    /\ flagFiles = <<>>
    /\ stdin \in ScanEvents
    /\ changelog = NoText
    /\ skipEnv = FALSE
    /\ git = NoPrograms
    /\ run = NoHookRun
    /\ projectFiles \in ShortLists \cup LongLists
    /\ procs = <<>>

NextScan == LargeFileAwarenessMain

SpecScan == InitScan /\ [][NextScan]_vars

\* the scanner resolved a threshold and went through the project files
Scanned == run.hook = "large-file-awareness" /\ run.analyzed

\* the paths of the reported files
Reported == {run.large_files[k].path : k \in DOMAIN run.large_files}

NonBinary(f) == Lower(f.ext) \notin BINARY_EXTENSIONS

\* C23: the scanner reports exactly the existing non-binary project files
\* with more lines than the threshold; a file with exactly as many lines as
\* the threshold is not reported.
C23_ReportedIffOverThreshold ==
    Scanned =>
        \A i \in DOMAIN projectFiles :
            i \in Reported <=>
                /\ projectFiles[i].exists
                /\ NonBinary(projectFiles[i])
                /\ projectFiles[i].lines > run.threshold

\* C24: the scanner's list is in descending line-count order, the output
\* shows its first ten entries at most, and the remainder line is printed
\* exactly when more than ten files qualify, with the total minus ten.
C24_TopTenDescendingWithRemainder ==
    Scanned =>
        LET total == Len(run.large_files)
        IN  /\ \A i, j \in DOMAIN run.large_files :
                   i < j => run.large_files[i].lines >= run.large_files[j].lines
            /\ Len(run.shown) = IF total > 10 THEN 10 ELSE total
            /\ \A k \in DOMAIN run.shown : run.shown[k] = run.large_files[k]
            /\ IF total > 10
               THEN run.remainder.some /\ run.remainder.s = total - 10
               ELSE ~run.remainder.some

\* twelve files qualified, in a scan order that was not descending: ten
\* are shown and the remainder is two
C24_Witness ==
    /\ Scanned
    /\ Len(run.large_files) = 12
    /\ \E i \in 1..11 : projectFiles[i].lines < projectFiles[i + 1].lines
    /\ Len(run.shown) = 10
    /\ run.remainder = Some(2)

(***************************************************************************)
(* SpecSafety: git-safety-check on commands with --no-verify.              *)
(*                                                                         *)
(* A command is a sequence of units: a whitespace character, a quote       *)
(* character, or a run of other characters such as --no-verify or <<.      *)
(***************************************************************************)
\* most arguments after `git`
MaxArgs == 3

IsSpace(u) == u \in {" ", "\n"}
IsQuote(u) == u \in {"\"", "'"}
Least(S) == CHOOSE i \in S : \A j \in S : i <= j
NoVerifyAt(cmd) == {i \in DOMAIN cmd : cmd[i] = "--no-verify"}

\* re.search(r"(^|\s)--no-verify(\s|$)", command)
StandaloneAt(cmd) ==
    {i \in NoVerifyAt(cmd) :
        /\ i = 1 \/ IsSpace(cmd[i - 1])
        /\ i = Len(cmd) \/ IsSpace(cmd[i + 1])}

\* re.search(r'-m\s+["\'].*?["\']', command, re.DOTALL): where the leftmost
\* match starts and the quote character it ends with
MsgOpen(cmd, i) ==
    IF i + 2 <= Len(cmd) /\ IsSpace(cmd[i + 1])
    THEN Least({q \in (i + 2)..Len(cmd) : ~IsSpace(cmd[q])} \cup {Len(cmd) + 1})
    ELSE Len(cmd) + 1
MsgStarts(cmd) ==
    {i \in DOMAIN cmd :
        /\ cmd[i] = "-m"
        /\ MsgOpen(cmd, i) <= Len(cmd)
        /\ IsQuote(cmd[MsgOpen(cmd, i)])
        /\ \E e \in (MsgOpen(cmd, i) + 1)..Len(cmd) : IsQuote(cmd[e])}
MsgEnd(cmd, i) ==
    Least({e \in (MsgOpen(cmd, i) + 1)..Len(cmd) : IsQuote(cmd[e])})

\* re.search(r'<<["\']?EOF["\']?.*?EOF', command, re.DOTALL)
HereWord(cmd, i) ==
    IF i + 1 <= Len(cmd) /\ cmd[i + 1] = "EOF" THEN i + 1
    ELSE IF i + 2 <= Len(cmd) /\ IsQuote(cmd[i + 1]) /\ cmd[i + 2] = "EOF"
    THEN i + 2
    ELSE 0
HereStarts(cmd) ==
    {i \in DOMAIN cmd :
        /\ cmd[i] = "<<"
        /\ HereWord(cmd, i) > 0
        /\ \E t \in (HereWord(cmd, i) + 1)..Len(cmd) : cmd[t] = "EOF"}
HereEnd(cmd, i) ==
    Least({t \in (HereWord(cmd, i) + 1)..Len(cmd) : cmd[t] = "EOF"})

\* whether --no-verify makes check_git_command block (lines 38-58)
NoVerifyBlocks(cmd) ==
    /\ StandaloneAt(cmd) # {}
    /\ LET verify_pos == Least(NoVerifyAt(cmd))
           in_msg ==
               /\ MsgStarts(cmd) # {}
               /\ LET m == Least(MsgStarts(cmd))
                  IN  m < verify_pos /\ verify_pos < MsgEnd(cmd, m)
           in_heredoc ==
               /\ HereStarts(cmd) # {}
               /\ LET h == Least(HereStarts(cmd))
                  IN  h < verify_pos /\ verify_pos < HereEnd(cmd, h)
       IN  ~(in_msg \/ in_heredoc)

\* units i.. of the command are the given words, one whitespace apart
WordsAt(cmd, i, words) ==
    /\ i + 2 * (Len(words) - 1) <= Len(cmd)
    /\ \A k \in DOMAIN words : cmd[i + 2 * (k - 1)] = words[k]
    /\ \A k \in 1..(Len(words) - 1) : IsSpace(cmd[i + 2 * k - 1])

\* "git push origin :branch" in command, or
\* git\s+branch\s+-[dD]\s+branch(\s|$|&&|;|\|)
DeletesProtected(cmd) ==
    \E b \in PROTECTED_BRANCHES, i \in DOMAIN cmd :
        \/ /\ WordsAt(cmd, i, <<"git", "push", "origin">>)
           /\ i + 6 <= Len(cmd) /\ cmd[i + 5] = " " /\ cmd[i + 6] = ":" \o b
        \/ \E flag \in {"-d", "-D"} :
            /\ WordsAt(cmd, i, <<"git", "branch", flag, b>>)
            /\ i + 6 = Len(cmd) \/ IsSpace(cmd[i + 7])
                   \/ cmd[i + 7] \in {"&&", ";", "|"}

\* check_git_command(command): TRUE when it ends in sys.exit(2)
check_git_command(cmd) == NoVerifyBlocks(cmd) \/ DeletesProtected(cmd)

SafetyRun(code) == [hook |-> "git-safety-check", exit |-> code,
                    stderr |-> code = 2]

\* git-safety-check.py main; every command of the model contains "git"
SafetyOutcome(pd, dis, in) ==
    LET disabled == is_hook_disabled("git-safety-check", pd, dis)
    IN  IF disabled.kind = "raise" THEN SafetyRun(1)
        ELSE IF disabled.val \/ in.kind # "json" \/ in.tool # "Bash"
        THEN SafetyRun(0)
        ELSE IF HasWord(in.command, "git") /\ check_git_command(in.command)
        THEN SafetyRun(2)
        ELSE SafetyRun(0)

GitSafetyCheckMain ==
    /\ run = NoHookRun
    /\ run' = SafetyOutcome(projectDir, disabledHooks, stdin)
    /\ UNCHANGED <<envVars, thr, guardVars, sessVars, projectDir,
                   disabledHooks, systemToml, projectToml, flagFiles, stdin,
                   changelog, skipEnv, git, restVars>>

\* the arguments a command is put together from
SafetyArgs ==
    {<<"commit">>, <<"push">>, <<"branch">>, <<"origin">>, <<"-D">>,
     <<"main">>, <<":main">>, <<"feature">>,
     <<"--no-verify">>,
     <<"-m", " ", "'", "test", "'">>,
     <<"-m", " ", "\"", "--no-verify", "\"">>,
     <<"-m", " ", "\"", "fix:", " ", "remove", " ", "--no-verify", " ",
       "usage", "\"">>,
     <<"-m", " ", "\"", "it", "'", "s", " ", "--no-verify", " ", "now",
       "\"">>,
     <<"-m", " ", "\"", "$(cat", " ", "<<", "'", "EOF", "'", "\n", "Fix",
       " ", "--no-verify", "\n", "EOF", "\n", ")", "\"">>,
     <<"-F", " ", "-", " ", "<<", "EOF", "\n", "--no-verify", "\n", "EOF">>}

RECURSIVE Spaced(_)
Spaced(args) ==
    IF args = <<>> THEN <<>>
    ELSE <<" ">> \o Head(args) \o Spaced(Tail(args))
SafetyCommands ==
    {<<"git">> \o Spaced(args) :
        args \in UNION {[1..n -> SafetyArgs] : n \in 0..MaxArgs}}

InitSafety ==
    /\ RestIdle
    /\ envThreshold = Unset
    /\ home = TRUE
    /\ guardConfig = NoFileText
    /\ settingsJson = NoSettings
    /\ thr = NoCall
    /\ GuardIdle
    /\ SessionIdle
    /\ projectDir = TRUE
    /\ disabledHooks \in {NoText,
                          [kind |-> "text",
                           lines |-> <<HookLine("git-safety-check")>>]}
    /\ systemToml = NoToml
    /\ projectToml = NoToml
    /\ flagFiles = <<>>
    /\ stdin \in {InvalidToolEvent, ToolEvent("Edit", <<>>)}
                    \cup {ToolEvent("Bash", cmd) : cmd \in SafetyCommands}
    /\ changelog = NoText
    /\ skipEnv = FALSE
    /\ git = NoPrograms
    /\ run = NoHookRun

NextSafety == GitSafetyCheckMain

SpecSafety == InitSafety /\ [][NextSafety]_vars

\* The shell's reading of a command.  ctx.q is the open quote character
\* ("" outside quotes), ctx.msg says it opened the value of -m, ctx.here is
\* "no", "pending" after the heredoc word, or "body"; ctx.prev is the last
\* unit that was not whitespace and ctx.gap says whitespace followed it.
ShellStart == [q |-> "", msg |-> FALSE, here |-> "no", prev |-> "",
               gap |-> FALSE, covered |-> {}]
RECURSIVE ShellScan(_, _, _)
ShellScan(cmd, i, ctx) ==
    IF i > Len(cmd) THEN ctx.covered
    ELSE LET u == cmd[i]
             seen == [ctx EXCEPT !.prev = IF IsSpace(u) THEN ctx.prev ELSE u,
                                 !.gap = IsSpace(u)]
         IN  IF ctx.here = "body"
             THEN IF u = "EOF" /\ cmd[i - 1] = "\n"
                  THEN ShellScan(cmd, i + 1, [seen EXCEPT !.here = "no"])
                  ELSE ShellScan(cmd, i + 1,
                           [seen EXCEPT !.covered = ctx.covered \cup {i}])
             ELSE IF ctx.here = "pending" /\ u = "\n"
             THEN ShellScan(cmd, i + 1, [seen EXCEPT !.here = "body"])
             ELSE IF u = "<<"
             THEN ShellScan(cmd, i + 1, [seen EXCEPT !.here = "pending"])
             ELSE IF ctx.here = "pending"
             THEN ShellScan(cmd, i + 1, seen)
             ELSE IF ctx.q # ""
             THEN IF u = ctx.q
                  THEN ShellScan(cmd, i + 1,
                           [seen EXCEPT !.q = "", !.msg = FALSE])
                  ELSE ShellScan(cmd, i + 1,
                           [seen EXCEPT !.covered =
                               IF ctx.msg THEN ctx.covered \cup {i}
                               ELSE ctx.covered])
             ELSE IF IsQuote(u)
             THEN ShellScan(cmd, i + 1,
                      [seen EXCEPT !.q = u,
                                   !.msg = ctx.prev = "-m" /\ ctx.gap])
             ELSE ShellScan(cmd, i + 1, seen)

\* the units inside a -m quoted message or a heredoc body
InMessageOrHeredoc(cmd) == ShellScan(cmd, 1, ShellStart)

\* an enabled git-safety-check has run on a Bash command
SafetyChecked ==
    /\ run.hook = "git-safety-check"
    /\ Enabled("git-safety-check")
    /\ stdin.kind = "json" /\ stdin.tool = "Bash"

\* C25: the hook exits 2 on every git command with a standalone
\* --no-verify outside a -m message and outside a heredoc body, and does
\* not block a command all of whose --no-verify lie inside one (unless the
\* command deletes a protected branch).
C25_NoVerifyBlockedOutsideMessages ==
    SafetyChecked =>
        LET cmd == stdin.command
        IN  /\ StandaloneAt(cmd) \ InMessageOrHeredoc(cmd) # {}
                   => run.exit = 2
            /\ /\ NoVerifyAt(cmd) # {}
               /\ NoVerifyAt(cmd) \subseteq InMessageOrHeredoc(cmd)
               /\ ~DeletesProtected(cmd)
                   => run.exit = 0

(***************************************************************************)
(* SpecRace: hook processes of serena_awareness that overlap.              *)
(*                                                                         *)
(* Each process runs is_first_prompt_in_session(sid) one file system call  *)
(* at a time: exists(), touch(), the glob of the sweep, and for each       *)
(* marker of the glob stat() and then unlink().  No lock is taken, so the  *)
(* calls of different processes interleave in every order.                 *)
(***************************************************************************)
\* most hook processes started
MaxProcs == 3

RaceSessions == {"s1", "s2"}
\* the clock of the races: a marker with mtime 0 is older than the cutoff
RaceNow == (SESSION_MARKER_MAX_AGE_DAYS + 1) * SecondsPerDay

\* a process at its first step; `after` are the processes that had returned
\* when it was started
Proc(sid, after) == [sid |-> sid, pc |-> "exists", is_first |-> FALSE,
                     cutoff |-> 0, todo |-> {}, target |-> "none",
                     after |-> after]

\* the host starts the hook for a prompt of session sid
StartHook(sid) ==
    /\ Len(procs) < MaxProcs
    /\ procs' = Append(procs,
                       Proc(sid, {p \in DOMAIN procs :
                                     procs[p].pc = "returned"}))
    /\ UNCHANGED <<envVars, thr, guardVars, sessVars, hookVars, projectFiles>>

\* is_first = not marker.exists()
MarkerExists(p) ==
    /\ procs[p].pc = "exists"
    /\ procs' = [procs EXCEPT ![p].is_first = markers[procs[p].sid] = NoMarker,
                              ![p].pc = "touch"]
    /\ UNCHANGED <<envVars, thr, guardVars, sessVars, hookVars, projectFiles>>

\* marker.touch()
MarkerTouch(p) ==
    /\ procs[p].pc = "touch"
    /\ markers' = [markers EXCEPT ![procs[p].sid] = now]
    /\ procs' = [procs EXCEPT ![p].pc = "glob"]
    /\ UNCHANGED <<envVars, thr, guardVars, now, sess, called, hookVars,
                   projectFiles>>

\* cleanup_old_session_markers: the cutoff and the listing of *.seen,
\* without the marker of the current session
SweepGlob(p) ==
    /\ procs[p].pc = "glob"
    /\ procs' = [procs EXCEPT
           ![p].cutoff = Cutoff(now),
           ![p].todo = {s \in SessionIds :
                           markers[s] # NoMarker /\ s # procs[p].sid},
           ![p].pc = "stat"]
    /\ UNCHANGED <<envVars, thr, guardVars, sessVars, hookVars, projectFiles>>

\* marker.stat().st_mtime < cutoff for the next marker of the listing; a
\* marker that is gone raises OSError and is passed over
SweepStat(p) ==
    /\ procs[p].pc = "stat"
    /\ \E m \in procs[p].todo :
           procs' = [procs EXCEPT
               ![p].todo = procs[p].todo \ {m},
               ![p].target = IF markers[m] # NoMarker
                                 /\ markers[m] < procs[p].cutoff
                              THEN m ELSE "none",
               ![p].pc = IF markers[m] # NoMarker
                            /\ markers[m] < procs[p].cutoff
                         THEN "unlink" ELSE "stat"]
    /\ UNCHANGED <<envVars, thr, guardVars, sessVars, hookVars, projectFiles>>

\* marker.unlink(); OSError for a marker that is gone is ignored
SweepUnlink(p) ==
    /\ procs[p].pc = "unlink"
    /\ markers' = [markers EXCEPT ![procs[p].target] = NoMarker]
    /\ procs' = [procs EXCEPT ![p].target = "none", ![p].pc = "stat"]
    /\ UNCHANGED <<envVars, thr, guardVars, now, sess, called, hookVars,
                   projectFiles>>

\* return is_first
ReturnIsFirst(p) ==
    /\ procs[p].pc = "stat"
    /\ procs[p].todo = {}
    /\ procs' = [procs EXCEPT ![p].pc = "returned"]
    /\ UNCHANGED <<envVars, thr, guardVars, sessVars, hookVars, projectFiles>>

InitRace ==
    /\ envThreshold = Unset
    /\ home = TRUE
    /\ guardConfig = NoFileText
    /\ settingsJson = NoSettings
    /\ thr = NoCall
    /\ GuardIdle
    /\ HooksIdle
    /\ markers \in {d \in [SessionIds -> {NoMarker, 0}] : d["s3"] = NoMarker}
    /\ now = RaceNow
    /\ sess = NoSessCall
    /\ called = [s \in SessionIds |-> Never]
    /\ projectFiles = <<>>
    /\ procs = <<>>

NextRace ==
    \/ \E sid \in RaceSessions : StartHook(sid)
    \/ \E p \in DOMAIN procs : MarkerExists(p)
    \/ \E p \in DOMAIN procs : MarkerTouch(p)
    \/ \E p \in DOMAIN procs : SweepGlob(p)
    \/ \E p \in DOMAIN procs : SweepStat(p)
    \/ \E p \in DOMAIN procs : SweepUnlink(p)
    \/ \E p \in DOMAIN procs : ReturnIsFirst(p)

SpecRace == InitRace /\ [][NextRace]_vars

\* the process has made its marker.exists() test
Tested(p) == procs[p].pc # "exists"

\* C26: of the hook processes of one session that overlap, at most one
\* gets True from is_first_prompt_in_session.
C26_AtMostOneFirstPrompt ==
    \A p, q \in DOMAIN procs :
        /\ p # q
        /\ procs[p].sid = procs[q].sid
        /\ Tested(p) /\ Tested(q)
        => ~(procs[p].is_first /\ procs[q].is_first)

\* C27: a sweep of another session never unlinks a marker touched within
\* the retention window: once a call for session s has returned, the
\* marker of s exists, and a later call for s does not find it missing.
C27_TouchedMarkerSurvivesSweep ==
    \A p \in DOMAIN procs :
        procs[p].pc = "returned" =>
            /\ markers[procs[p].sid] # NoMarker
            /\ \A q \in DOMAIN procs :
                   /\ p \in procs[q].after
                   /\ procs[q].sid = procs[p].sid
                   /\ Tested(q)
                   => ~procs[q].is_first

\* every fragment appended to the prompt, in order (main, lines 407-411)
AllFragments ==
    (IF Truthy(run.always) THEN <<run.always.s>> ELSE <<>>)
        \o run.modes \o run.frags

\* no two entries of the configuration have the same content
DistinctContents ==
    \A k1, k2 \in Keys(run.config) :
        LET c1 == get_trigger_content(k1, run.config)
            c2 == get_trigger_content(k2, run.config)
        IN  k1 # k2 /\ Truthy(c1) /\ Truthy(c2) => c1.s # c2.s

\* C28: the content of an entry of the configuration is appended to the
\* prompt at most once, whether it is selected as _always, by a mode flag
\* file or by a token of the prompt.
C28_EachEntryAppendedOnce ==
    Printed /\ DistinctContents =>
        \A i, j \in DOMAIN AllFragments :
            i # j => AllFragments[i] # AllFragments[j]

\* what the resolver that was not called returns in the same environment
OtherResolver ==
    IF thr.fn = "get_threshold"
    THEN get_large_file_threshold(envThreshold, home, settingsJson)
    ELSE get_threshold(envThreshold, home, guardConfig)

\* C29: in one environment the resolver of the admission gate and the
\* resolver of the project scanner return the same threshold.
C29_ResolversAgree ==
    Resolved => thr.out = OtherResolver

(***************************************************************************)
(* SpecSplit: split_prompt_and_triggers, one pass of its loop at a time.   *)
(*                                                                         *)
(* procs[1] holds the locals of the call.                                  *)
(***************************************************************************)
SplitConfig == load_config(projectDir, systemToml, projectToml).config

\* text = prompt.rstrip(); triggers = []; last_keep = len(text)
SplitStart ==
    /\ procs = <<>>
    /\ procs' = <<[pc |-> "scan", text |-> RStrip(stdin.text),
                   last_keep |-> Len(RStrip(stdin.text)),
                   triggers |-> <<>>, done |-> FALSE,
                   base_prompt |-> <<>>, unique_triggers |-> <<>>]>>
    /\ UNCHANGED <<envVars, thr, guardVars, sessVars, hookVars, projectFiles>>

\* one pass of `while last_keep > 0`
ScanIteration ==
    /\ procs # <<>>
    /\ procs[1].pc = "scan"
    /\ ~procs[1].done /\ procs[1].last_keep > 0
    /\ procs' = <<ScanStep(procs[1], SplitConfig, build_alias_map(SplitConfig))>>
    /\ UNCHANGED <<envVars, thr, guardVars, sessVars, hookVars, projectFiles>>

\* the loop is left: base_prompt, the reversal and the seen loop
SplitReturn ==
    /\ procs # <<>>
    /\ procs[1].pc = "scan"
    /\ procs[1].done \/ procs[1].last_keep = 0
    /\ procs' = <<[procs[1] EXCEPT
                      !.pc = "returned",
                      !.base_prompt =
                          RStrip(SubSeq(procs[1].text, 1, procs[1].last_keep)),
                      !.unique_triggers =
                          Dedup(Reverse(procs[1].triggers), {})]>>
    /\ UNCHANGED <<envVars, thr, guardVars, sessVars, hookVars, projectFiles>>

InitSplit ==
    /\ envThreshold = Unset
    /\ home = TRUE
    /\ guardConfig = NoFileText
    /\ settingsJson = NoSettings
    /\ thr = NoCall
    /\ GuardIdle
    /\ SessionIdle
    /\ changelog = NoText
    /\ skipEnv = FALSE
    /\ git = NoPrograms
    /\ run = NoHookRun
    /\ InitPromptTexts
    /\ projectFiles = <<>>
    /\ procs = <<>>

NextSplit == SplitStart \/ ScanIteration \/ SplitReturn

\* the call runs on: a pass or the return is taken whenever one is possible
SpecSplit == InitSplit /\ [][NextSplit]_vars /\ WF_vars(NextSplit)

\* a pass of the loop either stops the scan or moves last_keep down, and
\* never below 0
ScanAdvances ==
    (procs # <<>> /\ procs[1].pc = "scan" /\ procs'[1].pc = "scan") =>
        /\ procs'[1].last_keep >= 0
        /\ procs'[1].done \/ procs'[1].last_keep < procs[1].last_keep

SplitReturned == procs # <<>> /\ procs[1].pc = "returned"

\* C30: every pass of the backward scan stops it or strictly decreases the
\* scan position, which stays at or above 0, so the call returns for every
\* prompt.
C30_ScanTerminates == [][ScanAdvances]_vars /\ <>SplitReturned

\* a call returned after two passes that each moved the position down
\* to a trigger token, the second one to position 0
C30_Witness ==
    /\ SplitReturned
    /\ Len(procs[1].triggers) = 2
    /\ procs[1].last_keep = 0
    /\ ~procs[1].done
====
